---------------------------- MODULE Spec2Model ----------------------------
(***************************************************************************)
(* A model of aleph_nought's OAI-PMH client (src/aleph_nought/oai/client.py):*)
(* the identifier template matcher built in __init__, and the lazy harvest  *)
(* list_records / _list_records_in_set, a generator driven by a consumer.   *)
(*                                                                         *)
(* Strings are sequences of one-character strings.  A template is a        *)
(* sequence whose elements are literal characters or one of the two        *)
(* placeholder tokens "{base}" and "{doc_number}".  Regular expressions    *)
(* are kept as syntax trees and matched with Python's backtracking order   *)
(* (first alternative first, greedy longest first, lazy shortest first,    *)
(* re.search trying start positions left to right).                        *)
(***************************************************************************)
EXTENDS Integers, Sequences, FiniteSets, TLC

VARIABLES
    client,       \* the AlephOAIClient after __init__ (Nothing: none built)
    gen,          \* state of the list_records generator as the consumer sees it
    pc,           \* where the generator's code stands
    set_i,        \* index in self._oai_sets of the set being harvested
    params,       \* the params dict of the next request
    response,     \* what the latest session.get gave
    content,      \* the parsed response being processed
    rec_i,        \* index in records of the fragment being processed
    out,          \* every ListRecordResponse yielded so far, in order
    requests,     \* every request issued so far, in order
    responses,    \* every response received so far, in order
    error,        \* the exception that ended the generator, or "none"
    last,         \* what the consumer's latest next() call gave it
    from_date,    \* arguments of the list_records call
    to_date,
    doc_number,   \* argument of the latest get_record call
    identifier,   \* identifier parameter of the latest GetRecord request
    match_,       \* result of _parse_identifier_pattern.search(identifier)
    x_client,     \* the AlephXClient after __init__
    sticky,       \* x_client's self._session.params["session_id"]
    callers,      \* the callers that may start a search on x_client
    search,       \* per caller: its find_system_numbers generator or its
                  \* get_one_or_none_system_number call
    x_requests,   \* every request x_client issued so far, in order
    x_responses,  \* every response x_client received so far, in order
    record_call,  \* the latest get_record call: its argument, its requests,
                  \* the response and how the call ended
    aleph_config, \* the AlephConfig the AlephClient is built from
    aleph_client, \* the attributes of the AlephClient after __init__
    accesses      \* every access to a property of aleph_client so far

vars == <<client, gen, pc, set_i, params, response, content, rec_i, out,
          requests, responses, error, last, from_date, to_date, doc_number,
          identifier, match_, x_client, sticky, callers, search, x_requests,
          x_responses, record_call, aleph_config, aleph_client,
          accesses>>

harvestVars == <<gen, pc, set_i, params, response, content, rec_i, out,
                 requests, responses, error, last, from_date, to_date>>

identVars == <<doc_number, identifier, match_>>

xVars == <<x_client, sticky, callers, search, x_requests, x_responses>>

recordVars == <<record_call>>

facadeVars == <<aleph_config, aleph_client, accesses>>

\* what the OAI harvest and the identifier round trip leave alone
serviceVars == <<xVars, recordVars, facadeVars>>

\* Python's Optional values: None is Nothing, a value x is Some(x)
Nothing == <<>>
Some(x) == <<x>>

(***************************************************************************)
(* Bounds of the model.                                                    *)
(***************************************************************************)
MaxPages == 2     \* pages the server serves for one set
MaxServed == 2    \* record fragments the server holds in all
MaxDocLen == 3    \* length of a document number tried by get_record

(***************************************************************************)
(* Sequence helpers.                                                       *)
(***************************************************************************)
\* F(x), with x evaluated once and handed to F as a value
Bind(x, F(_)) == CHOOSE r \in {F(e) : e \in {x}} : TRUE

RECURSIVE Concat(_)
Concat(ss) == IF ss = <<>> THEN <<>> ELSE Head(ss) \o Concat(Tail(ss))

\* the concatenation of the sequences of ss
Flatten(ss) == Bind(ss, LAMBDA v : Concat(v))

Range(s) == {s[i] : i \in DOMAIN s}

Slice(s, from, to) == SubSeq(s, from + 1, to)   \* s[from:to], 0-based

StringsUpTo(alphabet, n) == UNION {[1..k -> alphabet] : k \in 0..n}

(***************************************************************************)
(* Regular expressions.  A piece is a character class with a repetition    *)
(* count; an alternative is a sequence of pieces; a node is a sequence of  *)
(* alternatives, optionally a named group; a pattern is a sequence of      *)
(* nodes.  max = -1 stands for an unbounded repetition.                    *)
(***************************************************************************)
\* A character is a one-character string; a character outside ASCII is
\* written as its code point, "U+0663" for ARABIC-INDIC DIGIT THREE.
AsciiDigits == {"0", "1", "2", "3", "4", "5", "6", "7", "8", "9"}

\* The interpreter's Unicode database (unicodedata.unidata_version) decides
\* which characters are decimal digits (category Nd).  The repository names
\* no interpreter: a client may live in any of these, the databases of
\* Python 3.10, 3.11 and 3.13 (3.12 has 15.0.0, with the decimal digits of
\* 15.1.0).
UnidataVersions == {<<13, 0, 0>>, <<14, 0, 0>>, <<15, 1, 0>>}

\* the decimal digits outside ASCII in the database of that version
UnicodeDigitsOf(version) ==
    LET \* Unicode 13.0 (Python 3.9, 3.10)
        DecimalDigits13 ==
            {"U+0660", "U+0661", "U+0662", "U+0663", "U+0664", "U+0665",
             "U+0666", "U+0667", "U+0668", "U+0669", "U+06F0", "U+06F1",
             "U+06F2", "U+06F3", "U+06F4", "U+06F5", "U+06F6", "U+06F7",
             "U+06F8", "U+06F9", "U+07C0", "U+07C1", "U+07C2", "U+07C3",
             "U+07C4", "U+07C5", "U+07C6", "U+07C7", "U+07C8", "U+07C9",
             "U+0966", "U+0967", "U+0968", "U+0969", "U+096A", "U+096B",
             "U+096C", "U+096D", "U+096E", "U+096F", "U+09E6", "U+09E7",
             "U+09E8", "U+09E9", "U+09EA", "U+09EB", "U+09EC", "U+09ED",
             "U+09EE", "U+09EF", "U+0A66", "U+0A67", "U+0A68", "U+0A69",
             "U+0A6A", "U+0A6B", "U+0A6C", "U+0A6D", "U+0A6E", "U+0A6F",
             "U+0AE6", "U+0AE7", "U+0AE8", "U+0AE9", "U+0AEA", "U+0AEB",
             "U+0AEC", "U+0AED", "U+0AEE", "U+0AEF", "U+0B66", "U+0B67",
             "U+0B68", "U+0B69", "U+0B6A", "U+0B6B", "U+0B6C", "U+0B6D",
             "U+0B6E", "U+0B6F", "U+0BE6", "U+0BE7", "U+0BE8", "U+0BE9",
             "U+0BEA", "U+0BEB", "U+0BEC", "U+0BED", "U+0BEE", "U+0BEF",
             "U+0C66", "U+0C67", "U+0C68", "U+0C69", "U+0C6A", "U+0C6B",
             "U+0C6C", "U+0C6D", "U+0C6E", "U+0C6F", "U+0CE6", "U+0CE7",
             "U+0CE8", "U+0CE9", "U+0CEA", "U+0CEB", "U+0CEC", "U+0CED",
             "U+0CEE", "U+0CEF", "U+0D66", "U+0D67", "U+0D68", "U+0D69",
             "U+0D6A", "U+0D6B", "U+0D6C", "U+0D6D", "U+0D6E", "U+0D6F",
             "U+0DE6", "U+0DE7", "U+0DE8", "U+0DE9", "U+0DEA", "U+0DEB",
             "U+0DEC", "U+0DED", "U+0DEE", "U+0DEF", "U+0E50", "U+0E51",
             "U+0E52", "U+0E53", "U+0E54", "U+0E55", "U+0E56", "U+0E57",
             "U+0E58", "U+0E59", "U+0ED0", "U+0ED1", "U+0ED2", "U+0ED3",
             "U+0ED4", "U+0ED5", "U+0ED6", "U+0ED7", "U+0ED8", "U+0ED9",
             "U+0F20", "U+0F21", "U+0F22", "U+0F23", "U+0F24", "U+0F25",
             "U+0F26", "U+0F27", "U+0F28", "U+0F29", "U+1040", "U+1041",
             "U+1042", "U+1043", "U+1044", "U+1045", "U+1046", "U+1047",
             "U+1048", "U+1049", "U+1090", "U+1091", "U+1092", "U+1093",
             "U+1094", "U+1095", "U+1096", "U+1097", "U+1098", "U+1099",
             "U+17E0", "U+17E1", "U+17E2", "U+17E3", "U+17E4", "U+17E5",
             "U+17E6", "U+17E7", "U+17E8", "U+17E9", "U+1810", "U+1811",
             "U+1812", "U+1813", "U+1814", "U+1815", "U+1816", "U+1817",
             "U+1818", "U+1819", "U+1946", "U+1947", "U+1948", "U+1949",
             "U+194A", "U+194B", "U+194C", "U+194D", "U+194E", "U+194F",
             "U+19D0", "U+19D1", "U+19D2", "U+19D3", "U+19D4", "U+19D5",
             "U+19D6", "U+19D7", "U+19D8", "U+19D9", "U+1A80", "U+1A81",
             "U+1A82", "U+1A83", "U+1A84", "U+1A85", "U+1A86", "U+1A87",
             "U+1A88", "U+1A89", "U+1A90", "U+1A91", "U+1A92", "U+1A93",
             "U+1A94", "U+1A95", "U+1A96", "U+1A97", "U+1A98", "U+1A99",
             "U+1B50", "U+1B51", "U+1B52", "U+1B53", "U+1B54", "U+1B55",
             "U+1B56", "U+1B57", "U+1B58", "U+1B59", "U+1BB0", "U+1BB1",
             "U+1BB2", "U+1BB3", "U+1BB4", "U+1BB5", "U+1BB6", "U+1BB7",
             "U+1BB8", "U+1BB9", "U+1C40", "U+1C41", "U+1C42", "U+1C43",
             "U+1C44", "U+1C45", "U+1C46", "U+1C47", "U+1C48", "U+1C49",
             "U+1C50", "U+1C51", "U+1C52", "U+1C53", "U+1C54", "U+1C55",
             "U+1C56", "U+1C57", "U+1C58", "U+1C59", "U+A620", "U+A621",
             "U+A622", "U+A623", "U+A624", "U+A625", "U+A626", "U+A627",
             "U+A628", "U+A629", "U+A8D0", "U+A8D1", "U+A8D2", "U+A8D3",
             "U+A8D4", "U+A8D5", "U+A8D6", "U+A8D7", "U+A8D8", "U+A8D9",
             "U+A900", "U+A901", "U+A902", "U+A903", "U+A904", "U+A905",
             "U+A906", "U+A907", "U+A908", "U+A909", "U+A9D0", "U+A9D1",
             "U+A9D2", "U+A9D3", "U+A9D4", "U+A9D5", "U+A9D6", "U+A9D7",
             "U+A9D8", "U+A9D9", "U+A9F0", "U+A9F1", "U+A9F2", "U+A9F3",
             "U+A9F4", "U+A9F5", "U+A9F6", "U+A9F7", "U+A9F8", "U+A9F9",
             "U+AA50", "U+AA51", "U+AA52", "U+AA53", "U+AA54", "U+AA55",
             "U+AA56", "U+AA57", "U+AA58", "U+AA59", "U+ABF0", "U+ABF1",
             "U+ABF2", "U+ABF3", "U+ABF4", "U+ABF5", "U+ABF6", "U+ABF7",
             "U+ABF8", "U+ABF9", "U+FF10", "U+FF11", "U+FF12", "U+FF13",
             "U+FF14", "U+FF15", "U+FF16", "U+FF17", "U+FF18", "U+FF19",
             "U+104A0", "U+104A1", "U+104A2", "U+104A3", "U+104A4", "U+104A5",
             "U+104A6", "U+104A7", "U+104A8", "U+104A9", "U+10D30", "U+10D31",
             "U+10D32", "U+10D33", "U+10D34", "U+10D35", "U+10D36", "U+10D37",
             "U+10D38", "U+10D39", "U+11066", "U+11067", "U+11068", "U+11069",
             "U+1106A", "U+1106B", "U+1106C", "U+1106D", "U+1106E", "U+1106F",
             "U+110F0", "U+110F1", "U+110F2", "U+110F3", "U+110F4", "U+110F5",
             "U+110F6", "U+110F7", "U+110F8", "U+110F9", "U+11136", "U+11137",
             "U+11138", "U+11139", "U+1113A", "U+1113B", "U+1113C", "U+1113D",
             "U+1113E", "U+1113F", "U+111D0", "U+111D1", "U+111D2", "U+111D3",
             "U+111D4", "U+111D5", "U+111D6", "U+111D7", "U+111D8", "U+111D9",
             "U+112F0", "U+112F1", "U+112F2", "U+112F3", "U+112F4", "U+112F5",
             "U+112F6", "U+112F7", "U+112F8", "U+112F9", "U+11450", "U+11451",
             "U+11452", "U+11453", "U+11454", "U+11455", "U+11456", "U+11457",
             "U+11458", "U+11459", "U+114D0", "U+114D1", "U+114D2", "U+114D3",
             "U+114D4", "U+114D5", "U+114D6", "U+114D7", "U+114D8", "U+114D9",
             "U+11650", "U+11651", "U+11652", "U+11653", "U+11654", "U+11655",
             "U+11656", "U+11657", "U+11658", "U+11659", "U+116C0", "U+116C1",
             "U+116C2", "U+116C3", "U+116C4", "U+116C5", "U+116C6", "U+116C7",
             "U+116C8", "U+116C9", "U+11730", "U+11731", "U+11732", "U+11733",
             "U+11734", "U+11735", "U+11736", "U+11737", "U+11738", "U+11739",
             "U+118E0", "U+118E1", "U+118E2", "U+118E3", "U+118E4", "U+118E5",
             "U+118E6", "U+118E7", "U+118E8", "U+118E9", "U+11950", "U+11951",
             "U+11952", "U+11953", "U+11954", "U+11955", "U+11956", "U+11957",
             "U+11958", "U+11959", "U+11C50", "U+11C51", "U+11C52", "U+11C53",
             "U+11C54", "U+11C55", "U+11C56", "U+11C57", "U+11C58", "U+11C59",
             "U+11D50", "U+11D51", "U+11D52", "U+11D53", "U+11D54", "U+11D55",
             "U+11D56", "U+11D57", "U+11D58", "U+11D59", "U+11DA0", "U+11DA1",
             "U+11DA2", "U+11DA3", "U+11DA4", "U+11DA5", "U+11DA6", "U+11DA7",
             "U+11DA8", "U+11DA9", "U+16A60", "U+16A61", "U+16A62", "U+16A63",
             "U+16A64", "U+16A65", "U+16A66", "U+16A67", "U+16A68", "U+16A69",
             "U+16B50", "U+16B51", "U+16B52", "U+16B53", "U+16B54", "U+16B55",
             "U+16B56", "U+16B57", "U+16B58", "U+16B59", "U+1D7CE", "U+1D7CF",
             "U+1D7D0", "U+1D7D1", "U+1D7D2", "U+1D7D3", "U+1D7D4", "U+1D7D5",
             "U+1D7D6", "U+1D7D7", "U+1D7D8", "U+1D7D9", "U+1D7DA", "U+1D7DB",
             "U+1D7DC", "U+1D7DD", "U+1D7DE", "U+1D7DF", "U+1D7E0", "U+1D7E1",
             "U+1D7E2", "U+1D7E3", "U+1D7E4", "U+1D7E5", "U+1D7E6", "U+1D7E7",
             "U+1D7E8", "U+1D7E9", "U+1D7EA", "U+1D7EB", "U+1D7EC", "U+1D7ED",
             "U+1D7EE", "U+1D7EF", "U+1D7F0", "U+1D7F1", "U+1D7F2", "U+1D7F3",
             "U+1D7F4", "U+1D7F5", "U+1D7F6", "U+1D7F7", "U+1D7F8", "U+1D7F9",
             "U+1D7FA", "U+1D7FB", "U+1D7FC", "U+1D7FD", "U+1D7FE", "U+1D7FF",
             "U+1E140", "U+1E141", "U+1E142", "U+1E143", "U+1E144", "U+1E145",
             "U+1E146", "U+1E147", "U+1E148", "U+1E149", "U+1E2F0", "U+1E2F1",
             "U+1E2F2", "U+1E2F3", "U+1E2F4", "U+1E2F5", "U+1E2F6", "U+1E2F7",
             "U+1E2F8", "U+1E2F9", "U+1E950", "U+1E951", "U+1E952", "U+1E953",
             "U+1E954", "U+1E955", "U+1E956", "U+1E957", "U+1E958", "U+1E959",
             "U+1FBF0", "U+1FBF1", "U+1FBF2", "U+1FBF3", "U+1FBF4", "U+1FBF5",
             "U+1FBF6", "U+1FBF7", "U+1FBF8", "U+1FBF9"}
        \* TANGSA DIGIT ZERO..NINE, since Unicode 14.0 (Python 3.11)
        TangsaDigits ==
            {"U+16AC0", "U+16AC1", "U+16AC2", "U+16AC3", "U+16AC4", "U+16AC5",
             "U+16AC6", "U+16AC7", "U+16AC8", "U+16AC9"}
        \* KAWI DIGIT ZERO..NINE, since Unicode 15.0 (Python 3.12)
        KawiDigits ==
            {"U+11F50", "U+11F51", "U+11F52", "U+11F53", "U+11F54", "U+11F55",
             "U+11F56", "U+11F57", "U+11F58", "U+11F59"}
        \* NAG MUNDARI DIGIT ZERO..NINE, since Unicode 15.0
        NagMundariDigits ==
            {"U+1E4F0", "U+1E4F1", "U+1E4F2", "U+1E4F3", "U+1E4F4", "U+1E4F5",
             "U+1E4F6", "U+1E4F7", "U+1E4F8", "U+1E4F9"}
    IN DecimalDigits13
        \cup (IF version[1] >= 14 THEN TangsaDigits ELSE {})
        \cup (IF version[1] >= 15 THEN KawiDigits \cup NagMundariDigits
                                  ELSE {})

\* what \d matches in a str pattern compiled under each database: every
\* decimal digit that database knows
DigitsOf ==
    [version \in UnidataVersions |->
        AsciiDigits \cup UnicodeDigitsOf(version)]

\* The class \d as it is written in a pattern string.  A class is a
\* sequence: <<c>> for the one character c, DigitClass for \d before the
\* pattern is compiled, DigitClass \o version once it is compiled by an
\* interpreter with the database of that version.
DigitClass == <<"\\d">>

\* A piece names its class.
Piece(cls, min, max, greedy) ==
    [cls |-> cls, min |-> min, max |-> max, greedy |-> greedy]

\* re.escape(c) for one literal character: matches exactly that character
Literal(c) == Piece(<<c>>, 1, 1, TRUE)

\* re.compile of the alternatives of a pattern string: \d is bound to the
\* decimal digits of the interpreter's database
Compile(alts, version) ==
    [a \in DOMAIN alts |->
        [k \in DOMAIN alts[a] |->
            IF alts[a][k].cls = DigitClass
            THEN [alts[a][k] EXCEPT !.cls = DigitClass \o version]
            ELSE alts[a][k]]]

\* the characters a class of a compiled pattern matches
Members(cls) ==
    IF Head(cls) = Head(DigitClass) THEN DigitsOf[Tail(cls)] ELSE {Head(cls)}

RECURSIVE Run(_, _, _)
\* how many characters of s from position pos on are in cls
Run(cls, s, pos) ==
    IF pos < Len(s) /\ s[pos + 1] \in Members(cls) THEN 1 + Run(cls, s, pos + 1) ELSE 0

RECURSIVE Counting(_, _, _)
\* <<from, from + step, ..., to>>
Counting(from, to, step) ==
    IF (step > 0 /\ from > to) \/ (step < 0 /\ from < to) THEN <<>>
    ELSE <<from>> \o Counting(from + step, to, step)

\* end positions of piece p matched at pos, in the order the engine tries them
PieceEnds(p, s, pos) ==
    LET avail == Run(p.cls, s, pos)
        most == IF p.max = -1 \/ p.max > avail THEN avail ELSE p.max
        counts == IF most < p.min THEN <<>>
                  ELSE IF p.greedy THEN Counting(most, p.min, -1)
                  ELSE Counting(p.min, most, 1)
    IN [k \in DOMAIN counts |-> pos + counts[k]]

RECURSIVE AltEnds(_, _, _)
\* end positions of a sequence of pieces matched at pos, in backtracking order
AltEnds(alt, s, pos) ==
    IF alt = <<>> THEN <<pos>>
    ELSE Bind(<<PieceEnds(Head(alt), s, pos), Tail(alt)>>,
              LAMBDA x :
                  Flatten([k \in DOMAIN x[1] |->
                              AltEnds(x[2], s, x[1][k])]))

\* end positions of a node (alternatives tried left to right)
NodeEnds(node, s, pos) ==
    Flatten([a \in DOMAIN node.alts |-> AltEnds(node.alts[a], s, pos)])

\* a named group taken to run to the end of the string
Capture_ToEndOfString(groups, node, s, pos, e) ==
    IF node.name = "" THEN groups
    ELSE [groups EXCEPT ![node.name] = Slice(s, pos, Len(s))]

\* the groups captured so far, with the text s[pos:e] for a named node
Capture(groups, node, s, pos, e) ==
    IF node.name = "" THEN groups
    ELSE [groups EXCEPT ![node.name] = Slice(s, pos, e)]

RECURSIVE MatchAt(_, _, _, _)
\* every way pattern re matches s from pos, in backtracking order; each is
\* the groups captured so far (groups) extended by the named groups of re
MatchAt(re, s, pos, groups) ==
    IF re = <<>> THEN << groups >>
    ELSE Bind(<<NodeEnds(Head(re), s, pos), Tail(re)>>,
              LAMBDA x :
                  Flatten([k \in DOMAIN x[1] |->
                      Bind(Capture(groups, Head(re), s, pos, x[1][k]),
                           LAMBDA g : MatchAt(x[2], s, x[1][k], g))]))

NoGroups == [base |-> <<>>, system_number |-> <<>>]

RECURSIVE SearchFrom(_, _, _)
SearchFrom(re, s, pos) ==
    IF pos > Len(s) THEN Nothing
    ELSE Bind(MatchAt(re, s, pos, NoGroups),
              LAMBDA ms : IF ms # <<>> THEN Some(Head(ms))
                          ELSE SearchFrom(re, s, pos + 1))

\* re.Pattern.search: the first match at the leftmost position that has one,
\* as Some(groupdict), or Nothing for Python's None
Search(re, s) ==
    Bind(re, LAMBDA p : Bind(s, LAMBDA t : SearchFrom(p, t, 0)))

\* re.fullmatch(system_number_pattern, d), the pattern compiled (alts)
FullMatch(alts, d) ==
    LET ends == NodeEnds([name |-> "", alts |-> alts], d, 0)
    IN \E k \in DOMAIN ends : ends[k] = Len(d)

(***************************************************************************)
(* Configuration (AlephOAIConfig) and client construction.                 *)
(***************************************************************************)
PlaceholderBase == "{base}"
PlaceholderDocNumber == "{doc_number}"

\* template.format(base=base, doc_number="{doc_number}"): the base is
\* substituted, the document-number placeholder is kept for get_record
FormatBase(template, base) ==
    Flatten([i \in DOMAIN template |->
                IF template[i] = PlaceholderBase THEN base
                ELSE <<template[i]>>])

\* self._oai_identifier_template.format(doc_number=doc_number)
FormatDocNumber(template, d) ==
    Flatten([i \in DOMAIN template |->
                IF template[i] = PlaceholderDocNumber THEN d
                ELSE <<template[i]>>])

\* re.escape(s) of a literal string: one node matching exactly s
EscapedLiteral(s) == [k \in DOMAIN s |-> Literal(s[k])]

\* _build_parse_identifier_pattern: every literal character of the template
\* escaped, "{base}" replaced by (?P<base>re.escape(base)) and
\* "{doc_number}" by (?P<system_number>system_number_pattern), and the
\* whole compiled by the interpreter (unidata_version: its database)
BuildParseIdentifierPattern(template, base, system_number_pattern, unidata_version) ==
    [i \in DOMAIN template |->
        IF template[i] = PlaceholderBase
        THEN [name |-> "base", alts |-> << EscapedLiteral(base) >>]
        ELSE IF template[i] = PlaceholderDocNumber
        THEN [name |-> "system_number",
              alts |-> Compile(system_number_pattern, unidata_version)]
        ELSE [name |-> "", alts |-> << << Literal(template[i]) >> >>]]

\* AlephOAIClient.__init__, run by an interpreter with the Unicode database
\* unidata_version
AlephOAIClientInit(config, unidata_version) ==
    [config |-> config,
     unidata_version |-> unidata_version,
     oai_sets |-> config.oai_sets,
     oai_identifier_template |->
         FormatBase(config.oai_identifier_template, config.base),
     parse_identifier_pattern |->
         BuildParseIdentifierPattern(config.oai_identifier_template,
                                     config.base,
                                     config.system_number_pattern,
                                     unidata_version)]

\* system-number patterns: \d{2}, \d+, \d+?, \d|\d{2}, \d{2}|\d, \d{9}
PatFixed == << << Piece(DigitClass, 2, 2, TRUE) >> >>
PatGreedy == << << Piece(DigitClass, 1, -1, TRUE) >> >>
PatLazy == << << Piece(DigitClass, 1, -1, FALSE) >> >>
PatShortOrLong == << << Piece(DigitClass, 1, 1, TRUE) >>, << Piece(DigitClass, 2, 2, TRUE) >> >>
PatLongOrShort == << << Piece(DigitClass, 2, 2, TRUE) >>, << Piece(DigitClass, 1, 1, TRUE) >> >>
PatNine == << << Piece(DigitClass, 9, 9, TRUE) >> >>

SystemNumberPatterns ==
    {PatFixed, PatGreedy, PatLazy, PatShortOrLong, PatLongOrShort}

\* identifier templates: "o:{base}-{doc_number}" (the shape of the one in
\* tests/test_oai_client.py), "{doc_number}@{base}", "{base}{doc_number}"
TplTrailing == <<"o", ":", PlaceholderBase, "-", PlaceholderDocNumber>>
TplLeading == <<PlaceholderDocNumber, "@", PlaceholderBase>>
TplAdjacent == <<PlaceholderBase, PlaceholderDocNumber>>

Templates == {TplTrailing, TplLeading, TplAdjacent}

BaseMZK01 == <<"M", "Z", "K", "0", "1">>
BaseK == <<"K">>

Bases == {BaseMZK01, BaseK}

IdentConfigs ==
    [base : Bases,
     system_number_pattern : SystemNumberPatterns,
     oai_sets : {<<"S1">>},
     oai_identifier_template : Templates]

\* the configuration of tests/test_oai_client.py, with two sets to harvest
HarvestConfig ==
    [base |-> BaseMZK01,
     system_number_pattern |-> PatNine,
     oai_sets |-> <<"S1", "S2">>,
     oai_identifier_template |-> TplTrailing]

DocNumbers == StringsUpTo({"1", "2"}, MaxDocLen)

(***************************************************************************)
(* The server side of a harvest: record fragments and ListRecords          *)
(* responses.                                                              *)
(***************************************************************************)
DocA == <<"0", "0", "0", "9", "6", "0", "0", "8", "0">>
\* KAWI DIGIT ONE..NINE: decimal digits since Unicode 15.0
DocB == <<"U+11F51", "U+11F52", "U+11F53", "U+11F54", "U+11F55", "U+11F56",
          "U+11F57", "U+11F58", "U+11F59">>

\* identifiers a server may put in a record header
IdA == <<"o", ":">> \o BaseMZK01 \o <<"-">> \o DocA
IdB == <<"o", ":">> \o BaseMZK01 \o <<"-">> \o DocB
IdWrapped == <<"x">> \o IdA \o <<"7">>           \* text around an identifier
IdForeign == <<"o", ":">> \o BaseK \o <<"-">> \o DocA   \* another base

\* One <record> of a response.  header: an <header> element is there;
\* ident: the <identifier> element is "absent", "empty" (its .text is None)
\* or has "text"; status: the header's status attribute ("" when not set);
\* marc: the <marc:record> body parses ("ok"), does not parse ("bad") or is
\* absent, and then from_xml is handed None, which it rejects ("none") or
\* takes ("none_ok").
Frag(header, ident, text, status, marc) ==
    [header |-> header, ident |-> ident, text |-> text,
     status |-> status, marc |-> marc]

\* IdB is an identifier for an interpreter that knows the KAWI digits only
FragmentsProcessable ==
    {Frag(TRUE, "text", IdA, "", "ok"),
     Frag(TRUE, "text", IdA, "", "bad"),
     Frag(TRUE, "text", IdA, "", "none"),
     Frag(TRUE, "text", IdA, "", "none_ok"),
     Frag(TRUE, "text", IdA, "deleted", "none"),
     Frag(TRUE, "text", IdA, "deleted", "bad"),
     Frag(TRUE, "text", IdB, "", "ok"),
     Frag(TRUE, "text", IdWrapped, "", "ok")}

FragmentsFatal ==
    {Frag(FALSE, "absent", <<>>, "", "ok"),
     Frag(TRUE, "absent", <<>>, "", "ok"),
     Frag(TRUE, "empty", <<>>, "", "ok"),
     Frag(TRUE, "text", IdForeign, "", "ok"),
     Frag(TRUE, "text", IdForeign, "deleted", "none")}

Fragments == FragmentsProcessable \cup FragmentsFatal

\* the text of the resumption token the server gives with page k of a set
TokenText(k) == [i \in 1..k |-> "t"]

\* what a GET gives: an exception of the transport ("ConnectionError"), a
\* non-success status ("HTTPError" at raise_for_status), a body that is not
\* XML ("XMLSyntaxError"), or a "document" with its <record> elements, its
\* <resumptionToken> (Nothing: no such element; Some(<<>>): no text) and
\* whether it holds an <error> element
Failure(kind) ==
    [kind |-> kind, records |-> <<>>, token |-> Nothing, oai_error |-> FALSE]

Document(records, token, oai_error) ==
    [kind |-> "document", records |-> records, token |-> token,
     oai_error |-> oai_error]

FailureKinds == {"ConnectionError", "HTTPError", "XMLSyntaxError"}

\* the <record> fragments of every response so far, in order
ServedFragments ==
    Flatten([k \in DOMAIN responses |-> responses[k].records])

\* requests already issued for the set being harvested
PagesOfSet(i) == Cardinality({k \in DOMAIN requests : requests[k].set_i = i})

\* The responses the server may give to the next request: at most
\* MaxServed fragments in all the pages together, and the MaxPages-th page
\* of a set is its last (it carries no token).  The installed from_xml
\* does one thing with None during a harvest: the bodies it is handed
\* absent are all rejected or all taken.
ServerResponses ==
    LET room == MaxServed - Len(ServedFragments)
        page == PagesOfSet(set_i) + 1
        final == page >= MaxPages
        tokens == {Nothing, Some(<<>>)}
                  \cup (IF final THEN {} ELSE {Some(TokenText(page))})
        rejected(f) == f.status # "deleted" /\ f.marc = "none"
        taken(f) == f.status # "deleted" /\ f.marc = "none_ok"
        oneFromXml(frs) ==
            ~\E i, j \in DOMAIN frs : rejected(frs[i]) /\ taken(frs[j])
    IN {Failure(k) : k \in FailureKinds}
       \cup {Document(<<>>, Nothing, TRUE)}
       \cup [kind : {"document"},
             records : {rs \in UNION {[1..n -> Fragments] : n \in 0..room} :
                           oneFromXml(ServedFragments \o rs)},
             token : tokens,
             oai_error : {FALSE}]

(***************************************************************************)
(* The client side: _list_records_in_set and list_records.                 *)
(***************************************************************************)
ListRecordResponse(base, system_number, status, record) ==
    [base |-> base, system_number |-> system_number, status |-> status,
     record |-> record]

NoItem == ListRecordResponse(<<>>, <<>>, "", Nothing)

Raise(exc) == [exc |-> exc, item |-> NoItem]
Yield(item) == [exc |-> "none", item |-> item]

\* MarcRecord.from_xml(xml_marc) of the record-format collaborator, which
\* gives a parsed record or fails: Some(record), or Nothing when it raises.
\* It raises for a body that does not parse; for None, when the body is
\* absent, it does the one or the other.
FromXml(marc) ==
    IF marc \in {"ok", "none_ok"} THEN Some("MarcRecord") ELSE Nothing

\* Lines 292-319 with the try block as it should not be: nothing catches
\* the exception of from_xml
Classify_NoTry(f, base, system_number) ==
    IF f.status = "deleted"
    THEN Yield(ListRecordResponse(base, system_number, "Deleted", Nothing))
    ELSE IF FromXml(f.marc) # Nothing
    THEN Yield(ListRecordResponse(base, system_number, "Active",
                                  FromXml(f.marc)))
    ELSE Raise("MarcParseError")

\* ... with the body parsed before the deleted marker is looked at
Classify_ParseFirst(f, base, system_number) ==
    IF FromXml(f.marc) = Nothing
    THEN Yield(ListRecordResponse(base, system_number, "Failed", Nothing))
    ELSE IF f.status = "deleted"
    THEN Yield(ListRecordResponse(base, system_number, "Deleted", Nothing))
    ELSE Yield(ListRecordResponse(base, system_number, "Active",
                                  FromXml(f.marc)))

\* ... with a missing body passed on as an Active result without a record
Classify_ActiveWithoutBody(f, base, system_number) ==
    IF f.status = "deleted"
    THEN Yield(ListRecordResponse(base, system_number, "Deleted", Nothing))
    ELSE IF f.marc = "bad"
    THEN Yield(ListRecordResponse(base, system_number, "Failed", Nothing))
    ELSE Yield(ListRecordResponse(base, system_number, "Active",
                                  FromXml(f.marc)))

\* Lines 292-319: the result for a fragment whose identifier has matched.
\* A deleted header gives Deleted without a look at the body; otherwise the
\* body is parsed inside the try block: Active with the record, or Failed
\* when from_xml raises.
Classify(f, base, system_number) ==
    IF f.status = "deleted"
    THEN Yield(ListRecordResponse(base, system_number, "Deleted", Nothing))
    ELSE IF FromXml(f.marc) # Nothing
    THEN Yield(ListRecordResponse(base, system_number, "Active",
                                  FromXml(f.marc)))
    ELSE Yield(ListRecordResponse(base, system_number, "Failed", Nothing))

\* the searches of the harvest's compiled pattern in the identifiers the
\* server serves, each computed once
SearchResults ==
    {<<re, id, Search(re, id)>> :
        re \in {AlephOAIClientInit(HarvestConfig, v).parse_identifier_pattern :
                    v \in UnidataVersions},
        id \in {f.text : f \in Fragments}}

\* self._parse_identifier_pattern.search(identifier)
SearchIdentifier(pattern, text) ==
    IF \E r \in SearchResults : r[1] = pattern /\ r[2] = text
    THEN (CHOOSE r \in SearchResults : r[1] = pattern /\ r[2] = text)[3]
    ELSE Search(pattern, text)

\* Lines 266-319 with an identifier that does not match taken for a
\* per-record failure
ProcessFragment_InvalidAsFailed(pattern, f) ==
    IF ~f.header \/ f.ident # "text" \/ SearchIdentifier(pattern, f.text) = Nothing
    THEN Yield(ListRecordResponse(<<>>, <<>>, "Failed", Nothing))
    ELSE LET m == SearchIdentifier(pattern, f.text)
         IN Classify(f, m[1].base, m[1].system_number)

\* Lines 266-319, one fragment: the exception it raises, or the
\* ListRecordResponse it yields.
ProcessFragment(pattern, f) ==
    IF ~f.header THEN Raise("Record without header found.")
    ELSE IF f.ident = "absent" THEN Raise("AttributeError")
    ELSE IF f.ident = "empty" THEN Raise("Record without identifier found.")
    ELSE Bind(SearchIdentifier(pattern, f.text),
              LAMBDA m :
                  IF m = Nothing
                  THEN Raise("Record with invalid identifier found")
                  ELSE Classify(f, m[1].base, m[1].system_number))

\* the loop body with the whole rest of the page validated before a yield
RecordLoopBody_ValidateAhead(pattern, records, i) ==
    IF \E j \in i..Len(records) : ProcessFragment(pattern, records[j]).exc # "none"
    THEN Raise("Record without header found.")
    ELSE ProcessFragment(pattern, records[i])

\* "for record_result in records": the body run for the i-th record, which
\* sees that record only
RecordLoopBody(pattern, records, i) == ProcessFragment(pattern, records[i])

\* "for oai_set in self._oai_sets", taken from the last set to the first
NextSet_Reversed(oai_sets, done) == oai_sets[Len(oai_sets) - done]

\* "for oai_set in self._oai_sets": the set after `done` sets are harvested
NextSet(oai_sets, done) == oai_sets[done + 1]

\* the params of the first request of a set
InitialParams(oai_set, from, until) ==
    [verb |-> "ListRecords", metadataPrefix |-> Some("marc21"),
     from |-> from, until |-> until, set |-> Some(oai_set),
     resumptionToken |-> Nothing]

\* the params of a follow-up request that keeps the metadata prefix
ResumptionParams_KeepsPrefix(token_text) ==
    [verb |-> "ListRecords", metadataPrefix |-> Some("marc21"),
     from |-> Nothing, until |-> Nothing, set |-> Nothing,
     resumptionToken |-> Some(token_text)]

\* the params of a follow-up request
ResumptionParams(token_text) ==
    [verb |-> "ListRecords", metadataPrefix |-> Nothing,
     from |-> Nothing, until |-> Nothing, set |-> Nothing,
     resumptionToken |-> Some(token_text)]

NoParams ==
    [verb |-> "", metadataPrefix |-> Nothing, from |-> Nothing,
     until |-> Nothing, set |-> Nothing, resumptionToken |-> Nothing]

\* the test for an empty page left out
NoRecords_Ignored(records) == FALSE

\* "if not records": the page has no <record> element
NoRecords(records) == records = <<>>

\* the test with its "not" forgotten
NoResumption_Inverted(token) == token = Nothing \/ token[1] # <<>>

\* the test without its second half
NoResumption_OnlyAbsent(token) == token = Nothing

\* "resumption_token is None or not resumption_token.text"
NoResumption(token) == token = Nothing \/ token[1] = <<>>

\* the date window of the harvest: a lower bound and no upper bound
FromDate == Some("2025-03-01T00:00:00Z")
ToDate == Nothing

(***************************************************************************)
(* The X-Server client (src/aleph_nought/x/client.py): configuration, the  *)
(* server's answers and the pure parts of _search, _fetch_results,         *)
(* find_system_numbers and get_one_or_none_system_number.                  *)
(***************************************************************************)
\* the largest no_records a search response reports
MaxTotal == 3
\* the largest page_size configured
MaxPageSize == 2
\* the <doc_number> elements of all fetch responses together
MaxValues == 2
\* the requests the server answers, for all callers together
MaxRequests == 4

\* AlephXConfig (page_size is an int, not range-checked; the claims speak
\* of page_size >= 1)
AlephXConfig(host, endpoint, base, page_size) ==
    [host |-> host, endpoint |-> endpoint, base |-> base,
     page_size |-> page_size]

\* hosts, with and without a trailing slash, and endpoint paths
HostPlain == <<"h">>
HostSlash == <<"h", "/">>
EndpointX == <<"X">>
EndpointY == <<"Y">>

\* the configuration of tests/test_x_client.py, with small page sizes
XConfigs ==
    {AlephXConfig(HostPlain, EndpointX, BaseMZK01, n) : n \in 1..MaxPageSize}

\* what AlephXConfig accepts: host and endpoint are plain strings and
\* page_size is a plain int, so zero and negative values pass validation
XConfigsAccepted ==
    {AlephXConfig(h, e, BaseMZK01, n) :
        h \in {HostPlain, HostSlash}, e \in {EndpointX, EndpointY},
        n \in (-1)..MaxPageSize}

\* str.strip("/")
RECURSIVE StripSlashes(_)
StripSlashes(t) ==
    IF t = <<>> THEN t
    ELSE IF Head(t) = "/" THEN StripSlashes(Tail(t))
    ELSE IF t[Len(t)] = "/" THEN StripSlashes(SubSeq(t, 1, Len(t) - 1))
    ELSE t

\* AlephWebClient.__init__ and AlephXClient.__init__
AlephXClientInit(config) ==
    [host |-> StripSlashes(config.host), endpoint |-> config.endpoint,
     base |-> config.base, page_size |-> config.page_size]

\* _search, line 111: f"{self._host}/{self._endpoint}"
SearchUrl(xc) == xc.host \o <<"/">> \o xc.endpoint

\* _fetch_results, line 161: f"{self._host}/X"
FetchUrl(xc) == xc.host \o <<"/">> \o <<"X">>

Callers == {1, 2}

\* the text of the k-th session identifier the server issues
SessionText(k) == [i \in 1..k |-> "s"]

\* the session identifier an earlier, finished search left in the session
EarlierSession == <<"e">>

\* the text of <doc_number> elements; Nothing is an element without text
DocNumberTexts == {Some("MZK01-000000001"), Some("MZK01-000000002"), Nothing}

\* the text of an <h1> element of an error page
ForbiddenText == "Error 403 Forbidden"

\* what a GET on the X endpoint gives: a failure of the transport, of
\* raise_for_status or of etree.fromstring, or a document with the text of
\* its <session-id>, <h1>, <set_number> and <no_records> elements (Nothing:
\* no such element) and the texts of its <doc_number> elements
XFailure(kind) ==
    [kind |-> kind, session_id |-> Nothing, h1 |-> Nothing,
     set_number |-> Nothing, no_records |-> Nothing, doc_numbers |-> <<>>]

XDocument(session_id, h1, set_number, no_records, doc_numbers) ==
    [kind |-> "document", session_id |-> session_id, h1 |-> h1,
     set_number |-> set_number, no_records |-> no_records,
     doc_numbers |-> doc_numbers]

\* the server still answers
Answering == Len(x_responses) < MaxRequests

\* the session identifiers a response may carry: none, an empty one, a new
\* one, or the one the request carried
SessionIdsServed ==
    {Nothing, Some(<<>>), Some(SessionText(Len(x_responses) + 1))}
    \cup (IF sticky = Nothing THEN {} ELSE {sticky})

\* the answers to a find request: a failure, a page without a usable
\* session identifier, or a result set with its number and its size
SearchResponses ==
    {XFailure(k) : k \in FailureKinds}
    \cup [kind : {"document"},
          session_id : {Nothing, Some(<<>>)},
          h1 : {Nothing, Some(""), Some(ForbiddenText)},
          set_number : {Nothing},
          no_records : {Nothing, Some(1)},
          doc_numbers : {<<>>}]
    \cup [kind : {"document"},
          session_id : SessionIdsServed \ {Nothing, Some(<<>>)},
          h1 : {Nothing},
          set_number : {Some(Len(x_responses) + 1)},
          no_records : {Nothing} \cup {Some(n) : n \in 0..MaxTotal},
          doc_numbers : {<<>>}]

\* the <doc_number> elements served so far
ValuesServed ==
    Len(Flatten([k \in DOMAIN x_responses |-> x_responses[k].doc_numbers]))

\* the answers to a present request
FetchResponses ==
    {XFailure(k) : k \in FailureKinds}
    \cup [kind : {"document"},
          session_id : SessionIdsServed,
          h1 : {Nothing},
          set_number : {Nothing},
          no_records : {Nothing},
          doc_numbers : UNION {[1..n -> DocNumberTexts] :
                                  n \in 0..(MaxValues - ValuesServed)}]

\* an exception, or none
NoError == [type |-> "none", message |-> ""]
Exception(type, message) == [type |-> type, message |-> message]

\* a caller that has not searched: no generator, no call
NoSearch ==
    [kind |-> "none", st |-> "idle", pc |-> "search",
     set_number |-> Nothing, no_records |-> 0, page |-> 0,
     docs |-> <<>>, doc_i |-> 0, out |-> <<>>, result |-> Nothing,
     error |-> NoError]

\* the requests of the X client: params of session.get merged with the
\* session's sticky params
FindRequest(c, session_id) ==
    [caller |-> c, url |-> SearchUrl(x_client),
     op |-> "find", session_id |-> session_id,
     set_number |-> Nothing, set_entry |-> <<0, 0>>]

PresentRequest(c, session_id, set_number, page_start, page_end) ==
    [caller |-> c, url |-> FetchUrl(x_client),
     op |-> "present", session_id |-> session_id,
     set_number |-> set_number, set_entry |-> <<page_start, page_end>>]

\* line 124 taken as a test for a missing element only
NoSessionId_OnlyAbsent(session_id) == session_id = Nothing

\* _search, line 124: "if not session_id"
NoSessionId(session_id) == session_id = Nothing \/ session_id[1] = <<>>

\* _search, line 125: content.findtext(".//h1") or "Unexpected response"
ErrorMessage(h1) ==
    IF h1 = Nothing \/ h1[1] = "" THEN "Unexpected response" ELSE h1[1]

\* _search, line 131: int(content.findtext(".//no_records") or 0)
ParseNoRecords(text) == IF text = Nothing THEN 0 ELSE text[1]

\* _search, line 128: the session parameter after a successful search
StickyAfterSearch(old, resp) == resp.session_id

\* the session parameter left as the search set it
StickyAfterFetch_Kept(old, resp) == old

\* _fetch_results, line 171: the session parameter after a fetch response
StickyAfterFetch(old, resp) == resp.session_id

\* Python's min
Min(a, b) == IF a <= b THEN a ELSE b

\* the window of a page taken without the clip to no_records
PageWindow_Unclipped(page, page_size, no_records) ==
    <<page + 1, page + page_size>>

\* find_system_numbers, lines 199-202: the window of the page that starts
\* at offset page
PageWindow(page, page_size, no_records) ==
    <<page + 1, Min(page + page_size, no_records)>>

\* find_system_numbers, line 199: range(0, no_records, page_size) raises
\* ValueError for a step of zero
RangeRaises(step) == step = 0

\* find_system_numbers, line 199: range(0, no_records, page_size) still has
\* the offset page; a range with a negative step counts down to its stop
InRange(page, no_records, step) ==
    IF step > 0 THEN page < no_records ELSE page > no_records

\* line 228 taken as a test for an empty result set only
NotExactlyOne_OnlyZero(no_records) == no_records = 0

\* get_one_or_none_system_number, line 228
NotExactlyOne(no_records) == no_records # 1

\* the <doc_number> elements taken last to first
FindAllDocNumbers_Reversed(resp) ==
    [k \in DOMAIN resp.doc_numbers |->
        resp.doc_numbers[Len(resp.doc_numbers) + 1 - k]]

\* _fetch_results, line 173: content.findall(".//doc_number"), as the texts
\* of the elements in document order
FindAllDocNumbers(resp) == resp.doc_numbers

\* get_one_or_none_system_number, line 232: results[0] if results else None
FirstOrNone(results) == IF results # <<>> THEN results[1] ELSE Nothing

XIdle ==
    /\ x_client = AlephXClientInit(
                      AlephXConfig(HostPlain, EndpointX, BaseMZK01, 1))
    /\ sticky = Nothing
    /\ callers = {}
    /\ search = [c \in Callers |-> NoSearch]
    /\ x_requests = <<>>
    /\ x_responses = <<>>

(***************************************************************************)
(* get_record: one GetRecord request and what the call gives.              *)
(***************************************************************************)
\* the text of the <error> element of an OAI error document
ErrorTexts == {"No matching identifier", "idDoesNotExist"}

\* what the GET of get_record gives: a failure of the transport, of
\* raise_for_status or of etree.fromstring, or a document with the text of
\* its <error> element (Nothing: no such element) and its <marc:record>
\* element ("none": no such element, "ok": one that from_xml parses, "bad":
\* one that from_xml rejects)
RecordResponses ==
    [kind : FailureKinds, error : {Nothing}, marc : {"none"}]
    \cup [kind : {"document"},
          error : {Nothing} \cup {Some(t) : t \in ErrorTexts},
          marc : {"none", "ok", "bad"}]

\* lines 177-186: the request of get_record
GetRecordRequest(template, d) ==
    [verb |-> "GetRecord", metadataPrefix |-> "marc21",
     identifier |-> FormatDocNumber(template, d)]

\* how a call ends
Returned(value) == [st |-> "returned", value |-> value, error |-> NoError]
Raised(exc) == [st |-> "raised", value |-> Nothing, error |-> exc]

\* lines 188-199 without the look for an <error> element
GetRecordOutcome_ErrorIgnored(resp) ==
    IF resp.kind # "document" THEN Raised(Exception(resp.kind, ""))
    ELSE IF resp.marc = "none" THEN Returned(Nothing)
    ELSE IF FromXml(resp.marc) # Nothing THEN Returned(FromXml(resp.marc))
    ELSE Raised(Exception("MarcParseError", ""))

\* lines 188-199 without the test for a missing body
GetRecordOutcome_NoBodyTest(resp) ==
    IF resp.kind # "document" THEN Raised(Exception(resp.kind, ""))
    ELSE IF resp.error # Nothing
    THEN Raised(Exception("Exception", resp.error[1]))
    ELSE IF FromXml(resp.marc) # Nothing THEN Returned(FromXml(resp.marc))
    ELSE Raised(Exception("MarcParseError", ""))

\* lines 188-199: raise_for_status and etree.fromstring raise; an <error>
\* element raises Exception(error.text); no <marc:record> gives None;
\* otherwise MarcRecord.from_xml gives the record or raises
GetRecordOutcome(resp) ==
    IF resp.kind # "document" THEN Raised(Exception(resp.kind, ""))
    ELSE IF resp.error # Nothing
    THEN Raised(Exception("Exception", resp.error[1]))
    ELSE IF resp.marc = "none" THEN Returned(Nothing)
    ELSE IF FromXml(resp.marc) # Nothing THEN Returned(FromXml(resp.marc))
    ELSE Raised(Exception("MarcParseError", ""))

\* no get_record call yet
NoRecordCall ==
    [doc_number |-> Nothing, requests |-> <<>>, response |-> Nothing,
     outcome |-> [st |-> "idle", value |-> Nothing, error |-> NoError]]

RecordIdle == record_call = NoRecordCall

(***************************************************************************)
(* The facade AlephClient over the three service clients.                  *)
(***************************************************************************)
MaxAccesses == 3   \* property accesses on one AlephClient

Services == {"oai", "x", "z3950"}

\* AlephConfig: the services that have a configuration; validate_config
\* rejects a configuration without any
AlephConfigs ==
    {[base |-> BaseMZK01, configured |-> S] : S \in (SUBSET Services) \ {{}}}

\* the client class of a service
ClientClass(service) ==
    CASE service = "oai" -> "AlephOAIClient"
      [] service = "x" -> "AlephXClient"
      [] service = "z3950" -> "AlephZ3950Client"

\* AlephClient.__init__, lines 36-42: an attribute is assigned only for a
\* configured service; the function's domain is the attributes that exist
AlephClientInit(config) == [a \in config.configured |-> ClientClass(a)]

\* lines 44-60: "if not self._oai" reads the attribute first, which raises
\* AttributeError when __init__ never assigned it; a client object is true,
\* so an attribute that exists is returned
PropertyGet(attrs, service, name) ==
    IF service \notin DOMAIN attrs
    THEN Raised(Exception("AttributeError", "_" \o service))
    ELSE Returned(Some(attrs[service]))

FacadeIdle ==
    /\ aleph_config = Nothing
    /\ aleph_client = <<>>
    /\ accesses = <<>>

ServicesIdle == XIdle /\ RecordIdle /\ FacadeIdle

(***************************************************************************)
(* The harvest: a consumer drives the generator list_records returns.      *)
(* gen is "created" (not started), "running" (inside a next() call),       *)
(* "suspended" (at a yield), "returned" (StopIteration), "raised" or       *)
(* "closed" (the consumer gave it up).  Consumers use next() and close().  *)
(***************************************************************************)
HarvestIdle ==
    /\ gen = "created"
    /\ pc = "for_set"
    /\ set_i = 0
    /\ params = NoParams
    /\ response = Document(<<>>, Nothing, FALSE)
    /\ content = Document(<<>>, Nothing, FALSE)
    /\ rec_i = 0
    /\ out = <<>>
    /\ requests = <<>>
    /\ responses = <<>>
    /\ error = "none"
    /\ last = "none"

IdentIdle ==
    /\ doc_number = Nothing
    /\ identifier = Nothing
    /\ match_ = Nothing

\* client = AlephOAIClient(config); client.list_records(from_date, to_date)
Init ==
    /\ \E version \in UnidataVersions :
        client = AlephOAIClientInit(HarvestConfig, version)
    /\ from_date = FromDate
    /\ to_date = ToDate
    /\ HarvestIdle
    /\ IdentIdle
    /\ ServicesIdle

\* the consumer asks for the next element
ConsumerNext ==
    /\ gen \in {"created", "suspended"}
    /\ gen' = "running"
    /\ last' = "pending"
    /\ rec_i' = IF gen = "suspended" THEN rec_i + 1 ELSE rec_i
    /\ UNCHANGED <<client, pc, set_i, params, content, out, requests,
                   responses, error, from_date, to_date>>
    /\ UNCHANGED <<response, identVars, serviceVars>>

\* the consumer stops consuming
ConsumerClose ==
    /\ gen \in {"created", "suspended"}
    /\ gen' = "closed"
    /\ UNCHANGED <<client, pc, set_i, params, content, rec_i, out, requests,
                   responses, error, last, from_date, to_date>>
    /\ UNCHANGED <<response, identVars, serviceVars>>

\* next() on a generator that has ended gives StopIteration
ConsumerNextAfterEnd ==
    /\ gen \in {"returned", "raised", "closed"}
    /\ last # "StopIteration"
    /\ last' = "StopIteration"
    /\ UNCHANGED <<client, gen, pc, set_i, params, content, rec_i, out,
                   requests, responses, error, from_date, to_date>>
    /\ UNCHANGED <<response, identVars, serviceVars>>

\* list_records: "for oai_set in self._oai_sets", entering the next set's
\* _list_records_in_set or returning after the last
ForSet ==
    /\ gen = "running"
    /\ pc = "for_set"
    /\ IF set_i < Len(client.oai_sets)
       THEN /\ set_i' = set_i + 1
            /\ params' = InitialParams(NextSet(client.oai_sets, set_i),
                                       from_date, to_date)
            /\ pc' = "get"
            /\ UNCHANGED <<gen, last>>
       ELSE /\ gen' = "returned"
            /\ last' = "StopIteration"
            /\ UNCHANGED <<set_i, params, pc>>
    /\ UNCHANGED <<client, content, rec_i, out, requests, responses, error,
                   from_date, to_date>>
    /\ UNCHANGED <<response, identVars, serviceVars>>

\* one page request that is tried again when it fails
Get_Retrying ==
    /\ gen = "running"
    /\ pc = "get"
    /\ response' \in ServerResponses
    /\ requests' = Append(requests, [set_i |-> set_i, params |-> params])
    /\ responses' = Append(responses, response')
    /\ IF response'.kind # "document"
       THEN UNCHANGED <<gen, error, last, pc, content, rec_i>>
       ELSE IF NoRecords(response'.records)
       THEN /\ pc' = "for_set"
            /\ UNCHANGED <<gen, error, last, content, rec_i>>
       ELSE /\ content' = response'
            /\ rec_i' = 1
            /\ pc' = "for_record"
            /\ UNCHANGED <<gen, error, last>>
    /\ UNCHANGED <<client, set_i, params, out, from_date, to_date>>
    /\ UNCHANGED <<identVars, serviceVars>>

\* one page request: session.get, raise_for_status, etree.fromstring,
\* findall and the check for an empty page
Get ==
    /\ gen = "running"
    /\ pc = "get"
    /\ response' \in ServerResponses
    /\ requests' = Append(requests, [set_i |-> set_i, params |-> params])
    /\ responses' = Append(responses, response')
    /\ IF response'.kind # "document"
       THEN /\ gen' = "raised"
            /\ error' = response'.kind
            /\ last' = "error"
            /\ UNCHANGED <<pc, content, rec_i>>
       ELSE IF NoRecords(response'.records)
       THEN /\ pc' = "for_set"
            /\ UNCHANGED <<gen, error, last, content, rec_i>>
       ELSE /\ content' = response'
            /\ rec_i' = 1
            /\ pc' = "for_record"
            /\ UNCHANGED <<gen, error, last>>
    /\ UNCHANGED <<client, set_i, params, out, from_date, to_date>>
    /\ UNCHANGED <<identVars, serviceVars>>

\* one iteration of the record loop with the result kept in a list and
\* the loop going on, as a harvest that buffers would do
ForRecord_Buffered ==
    /\ gen = "running"
    /\ pc = "for_record"
    /\ rec_i <= Len(content.records)
    /\ \E r \in {RecordLoopBody(client.parse_identifier_pattern,
                                content.records, rec_i)} :
          IF r.exc # "none"
          THEN /\ gen' = "raised"
               /\ error' = r.exc
               /\ last' = "error"
               /\ UNCHANGED <<out, rec_i>>
          ELSE /\ out' = Append(out, r.item)
               /\ rec_i' = rec_i + 1
               /\ UNCHANGED <<gen, last, error>>
    /\ UNCHANGED <<client, pc, set_i, params, content, requests,
                   responses, from_date, to_date>>
    /\ UNCHANGED <<response, identVars, serviceVars>>

\* one iteration of "for record_result in records", up to its raise or yield
ForRecord ==
    /\ gen = "running"
    /\ pc = "for_record"
    /\ rec_i <= Len(content.records)
    /\ \E r \in {RecordLoopBody(client.parse_identifier_pattern,
                                content.records, rec_i)} :
          IF r.exc # "none"
          THEN /\ gen' = "raised"
               /\ error' = r.exc
               /\ last' = "error"
               /\ UNCHANGED out
          ELSE /\ gen' = "suspended"
               /\ out' = Append(out, r.item)
               /\ last' = "item"
               /\ UNCHANGED error
    /\ UNCHANGED <<client, pc, set_i, params, content, rec_i, requests,
                   responses, from_date, to_date>>
    /\ UNCHANGED <<response, identVars, serviceVars>>

\* after the last record of a page: the resumption token decides between
\* leaving the set's loop and the next request
Token ==
    /\ gen = "running"
    /\ pc = "for_record"
    /\ rec_i > Len(content.records)
    /\ IF NoResumption(content.token)
       THEN /\ pc' = "for_set"
            /\ UNCHANGED params
       ELSE /\ params' = ResumptionParams(content.token[1])
            /\ pc' = "get"
    /\ UNCHANGED <<client, gen, set_i, content, rec_i, out, requests,
                   responses, error, last, from_date, to_date>>
    /\ UNCHANGED <<response, identVars, serviceVars>>

Next ==
    \/ ConsumerNext
    \/ ConsumerClose
    \/ ConsumerNextAfterEnd
    \/ ForSet
    \/ Get
    \/ ForRecord
    \/ Token

Spec == Init /\ [][Next]_vars

\* the generator's own steps: a next() call runs to its yield, return or raise
Generator == ForSet \/ Get \/ ForRecord \/ Token

\* a consumer that keeps asking and a generator whose calls run to their end
FairSpec == Spec /\ WF_vars(Generator) /\ WF_vars(ConsumerNext)

(***************************************************************************)
(* The identifier round trip: get_record builds an identifier from a       *)
(* document number, the harvest parses identifiers with the compiled       *)
(* pattern.                                                                *)
(***************************************************************************)
InitIdent ==
    /\ \E config \in IdentConfigs, version \in UnidataVersions :
        client = AlephOAIClientInit(config, version)
    /\ from_date = Nothing
    /\ to_date = Nothing
    /\ HarvestIdle
    /\ IdentIdle
    /\ ServicesIdle

\* get_record(d): the identifier parameter of its GetRecord request
GetRecordIdentifier ==
    /\ identifier = Nothing
    /\ \E d \in DocNumbers :
        /\ doc_number' = Some(d)
        /\ identifier' = Some(FormatDocNumber(client.oai_identifier_template, d))
    /\ UNCHANGED <<client, match_>>
    /\ UNCHANGED <<harvestVars, serviceVars>>

\* the harvest's self._parse_identifier_pattern.search(identifier) on an
\* identifier the server gives back as get_record sent it
ParseIdentifier ==
    /\ identifier # Nothing
    /\ match_ = Nothing
    /\ match_' = Some(Search(client.parse_identifier_pattern, identifier[1]))
    /\ UNCHANGED <<client, doc_number, identifier>>
    /\ UNCHANGED <<harvestVars, serviceVars>>

NextIdent == GetRecordIdentifier \/ ParseIdentifier

SpecIdent == InitIdent /\ [][NextIdent]_vars

(***************************************************************************)
(* The X-Server searches.  Each caller of x_client holds one logical       *)
(* search: a find_system_numbers generator, driven by next(), or a         *)
(* get_one_or_none_system_number call.  The callers share one thread: a    *)
(* generator or call runs ("running") while every other is idle,           *)
(* suspended at a yield or ended.                                          *)
(***************************************************************************)
oaiVars == <<client, harvestVars, identVars, recordVars, facadeVars>>

NoneRunning == \A d \in Callers : search[d].st # "running"

InitX ==
    /\ client = Nothing
    /\ from_date = Nothing
    /\ to_date = Nothing
    /\ HarvestIdle
    /\ IdentIdle
    /\ RecordIdle
    /\ FacadeIdle
    /\ \E config \in XConfigs : x_client = AlephXClientInit(config)
    /\ sticky \in {Nothing, Some(EarlierSession)}
    /\ callers = {1}
    /\ search = [c \in Callers |-> NoSearch]
    /\ x_requests = <<>>
    /\ x_responses = <<>>

\* gen = x_client.find_system_numbers(field, value): nothing runs yet
FindSystemNumbers(c) ==
    /\ c \in callers
    /\ search[c].kind = "none"
    /\ NoneRunning
    /\ search' = [search EXCEPT ![c] =
                      [@ EXCEPT !.kind = "find", !.st = "created"]]
    /\ UNCHANGED <<x_client, sticky, callers, x_requests, x_responses>>
    /\ UNCHANGED oaiVars

\* next(gen): the generator starts, or resumes after its yield at line 174
XConsumerNext(c) ==
    /\ search[c].kind = "find"
    /\ search[c].st \in {"created", "suspended"}
    /\ NoneRunning
    /\ search' = [search EXCEPT ![c] =
                      [@ EXCEPT !.st = "running",
                                !.doc_i = IF search[c].st = "suspended"
                                          THEN @ + 1 ELSE @]]
    /\ UNCHANGED <<x_client, sticky, callers, x_requests, x_responses>>
    /\ UNCHANGED oaiVars

\* x_client.get_one_or_none_system_number(field, value) is called
GetOneOrNoneSystemNumber(c) ==
    /\ c \in callers
    /\ search[c].kind = "none"
    /\ NoneRunning
    /\ search' = [search EXCEPT ![c] =
                      [@ EXCEPT !.kind = "one", !.st = "running"]]
    /\ UNCHANGED <<x_client, sticky, callers, x_requests, x_responses>>
    /\ UNCHANGED oaiVars

\* _search (lines 110-133), and for get_one_or_none_system_number the
\* test of line 228 that follows it
XSearch(c) ==
    /\ search[c].st = "running"
    /\ search[c].pc = "search"
    /\ Answering
    /\ \E resp \in SearchResponses :
        /\ x_requests' = Append(x_requests, FindRequest(c, sticky))
        /\ x_responses' = Append(x_responses, resp)
        /\ IF resp.kind # "document"
           THEN /\ search' = [search EXCEPT ![c] =
                       [@ EXCEPT !.st = "raised",
                                 !.error = Exception(resp.kind, "")]]
                /\ UNCHANGED sticky
           ELSE IF NoSessionId(resp.session_id)
           THEN /\ search' = [search EXCEPT ![c] =
                       [@ EXCEPT !.st = "raised",
                                 !.error = Exception("RuntimeError",
                                               ErrorMessage(resp.h1))]]
                /\ UNCHANGED sticky
           ELSE /\ sticky' = StickyAfterSearch(sticky, resp)
                /\ LET n == ParseNoRecords(resp.no_records)
                   IN search' = [search EXCEPT ![c] =
                       IF search[c].kind = "one" /\ NotExactlyOne(n)
                       THEN [@ EXCEPT !.set_number = resp.set_number,
                                      !.no_records = n,
                                      !.st = "returned",
                                      !.result = Nothing]
                       ELSE [@ EXCEPT !.set_number = resp.set_number,
                                      !.no_records = n,
                                      !.page = 0,
                                      !.pc = IF search[c].kind = "one"
                                             THEN "fetch" ELSE "page"]]
    /\ UNCHANGED <<x_client, callers>>
    /\ UNCHANGED oaiVars

\* find_system_numbers, line 199: the next offset of range(0, no_records,
\* page_size), and _fetch_results (lines 160-171) for its window; or the
\* end of the range
XPage(c) ==
    /\ search[c].kind = "find"
    /\ search[c].st = "running"
    /\ search[c].pc = "page"
    /\ IF RangeRaises(x_client.page_size)
       THEN /\ search' = [search EXCEPT ![c] =
                   [@ EXCEPT !.st = "raised",
                             !.error = Exception("ValueError",
                                 "range() arg 3 must not be zero")]]
            /\ UNCHANGED <<sticky, x_requests, x_responses>>
       ELSE IF InRange(search[c].page, search[c].no_records,
                       x_client.page_size)
       THEN \E resp \in {r \in FetchResponses : Answering} :
            LET w == PageWindow(search[c].page, x_client.page_size,
                                search[c].no_records)
            IN /\ x_requests' = Append(x_requests,
                       PresentRequest(c, sticky, search[c].set_number,
                                      w[1], w[2]))
               /\ x_responses' = Append(x_responses, resp)
               /\ IF resp.kind # "document"
                  THEN /\ search' = [search EXCEPT ![c] =
                              [@ EXCEPT !.st = "raised",
                                        !.error = Exception(resp.kind, "")]]
                       /\ UNCHANGED sticky
                  ELSE /\ sticky' = StickyAfterFetch(sticky, resp)
                       /\ search' = [search EXCEPT ![c] =
                              [@ EXCEPT !.docs = FindAllDocNumbers(resp),
                                        !.doc_i = 1,
                                        !.pc = "doc"]]
       ELSE /\ search' = [search EXCEPT ![c] = [@ EXCEPT !.st = "returned"]]
            /\ UNCHANGED <<sticky, x_requests, x_responses>>
    /\ UNCHANGED <<x_client, callers>>
    /\ UNCHANGED oaiVars

\* lines 173-174 with the values collected in a list, the loop going on to
\* the next page without a yield
XDoc_Buffered(c) ==
    /\ search[c].kind = "find"
    /\ search[c].st = "running"
    /\ search[c].pc = "doc"
    /\ IF search[c].doc_i <= Len(search[c].docs)
       THEN search' = [search EXCEPT ![c] =
                [@ EXCEPT !.out = Append(@, search[c].docs[search[c].doc_i]),
                          !.doc_i = @ + 1]]
       ELSE search' = [search EXCEPT ![c] =
                [@ EXCEPT !.page = @ + x_client.page_size,
                          !.pc = "page"]]
    /\ UNCHANGED <<x_client, sticky, callers, x_requests, x_responses>>
    /\ UNCHANGED oaiVars

\* _fetch_results, lines 173-174: the yield of the next <doc_number>, or
\* the end of the page
XDoc(c) ==
    /\ search[c].kind = "find"
    /\ search[c].st = "running"
    /\ search[c].pc = "doc"
    /\ IF search[c].doc_i <= Len(search[c].docs)
       THEN search' = [search EXCEPT ![c] =
                [@ EXCEPT !.out = Append(@, search[c].docs[search[c].doc_i]),
                          !.st = "suspended"]]
       ELSE search' = [search EXCEPT ![c] =
                [@ EXCEPT !.page = @ + x_client.page_size,
                          !.pc = "page"]]
    /\ UNCHANGED <<x_client, sticky, callers, x_requests, x_responses>>
    /\ UNCHANGED oaiVars

\* get_one_or_none_system_number, lines 231-232
XFetchOne(c) ==
    /\ search[c].kind = "one"
    /\ search[c].st = "running"
    /\ search[c].pc = "fetch"
    /\ Answering
    /\ \E resp \in FetchResponses :
        /\ x_requests' = Append(x_requests,
                PresentRequest(c, sticky, search[c].set_number, 1, 1))
        /\ x_responses' = Append(x_responses, resp)
        /\ IF resp.kind # "document"
           THEN /\ search' = [search EXCEPT ![c] =
                       [@ EXCEPT !.st = "raised",
                                 !.error = Exception(resp.kind, "")]]
                /\ UNCHANGED sticky
           ELSE /\ sticky' = StickyAfterFetch(sticky, resp)
                /\ search' = [search EXCEPT ![c] =
                       [@ EXCEPT !.docs = FindAllDocNumbers(resp),
                                 !.result =
                                     FirstOrNone(FindAllDocNumbers(resp)),
                                 !.st = "returned"]]
    /\ UNCHANGED <<x_client, callers>>
    /\ UNCHANGED oaiVars

NextX ==
    \E c \in Callers :
        \/ FindSystemNumbers(c)
        \/ XConsumerNext(c)
        \/ GetOneOrNoneSystemNumber(c)
        \/ XSearch(c)
        \/ XPage(c)
        \/ XDoc(c)
        \/ XFetchOne(c)

\* one caller
SpecX == InitX /\ [][NextX]_vars

\* two callers of the same client
InitXShared ==
    /\ client = Nothing
    /\ from_date = Nothing
    /\ to_date = Nothing
    /\ HarvestIdle
    /\ IdentIdle
    /\ RecordIdle
    /\ FacadeIdle
    /\ \E config \in XConfigs : x_client = AlephXClientInit(config)
    /\ sticky = Nothing
    /\ callers = Callers
    /\ search = [c \in Callers |-> NoSearch]
    /\ x_requests = <<>>
    /\ x_responses = <<>>

SpecXShared == InitXShared /\ [][NextX]_vars

\* one caller, any configuration AlephXConfig accepts
InitXAccepted ==
    /\ client = Nothing
    /\ from_date = Nothing
    /\ to_date = Nothing
    /\ HarvestIdle
    /\ IdentIdle
    /\ RecordIdle
    /\ FacadeIdle
    /\ \E config \in XConfigsAccepted : x_client = AlephXClientInit(config)
    /\ sticky = Nothing
    /\ callers = {1}
    /\ search = [c \in Callers |-> NoSearch]
    /\ x_requests = <<>>
    /\ x_responses = <<>>

SpecXAccepted == InitXAccepted /\ [][NextX]_vars

(***************************************************************************)
(* A client program that harvests, or that has given its harvest up and    *)
(* searches the X-Server.                                                  *)
(***************************************************************************)
\* list_records was called, its generator closed and asked once more; the
\* X client is ready for one caller
InitSearchAfterHarvest ==
    /\ \E version \in UnidataVersions :
        client = AlephOAIClientInit(HarvestConfig, version)
    /\ from_date = FromDate
    /\ to_date = ToDate
    /\ gen = "closed"
    /\ pc = "for_set"
    /\ set_i = 0
    /\ params = NoParams
    /\ response = Document(<<>>, Nothing, FALSE)
    /\ content = Document(<<>>, Nothing, FALSE)
    /\ rec_i = 0
    /\ out = <<>>
    /\ requests = <<>>
    /\ responses = <<>>
    /\ error = "none"
    /\ last = "StopIteration"
    /\ IdentIdle
    /\ RecordIdle
    /\ FacadeIdle
    /\ \E config \in XConfigs : x_client = AlephXClientInit(config)
    /\ sticky = Nothing
    /\ callers = {1}
    /\ search = [c \in Callers |-> NoSearch]
    /\ x_requests = <<>>
    /\ x_responses = <<>>

InitProtocol == Init \/ InitSearchAfterHarvest

NextProtocol == Next \/ NextX

SpecProtocol == InitProtocol /\ [][NextProtocol]_vars

(***************************************************************************)
(* Single-record fetches: get_record has no yield, a call is one step.     *)
(***************************************************************************)
InitRecord ==
    /\ \E version \in UnidataVersions :
        client = AlephOAIClientInit(HarvestConfig, version)
    /\ from_date = Nothing
    /\ to_date = Nothing
    /\ HarvestIdle
    /\ IdentIdle
    /\ ServicesIdle

\* client.get_record(d), lines 177-199
GetRecord ==
    /\ \E d \in DocNumbers, resp \in RecordResponses :
        record_call' =
            [doc_number |-> Some(d),
             requests |->
                 << GetRecordRequest(client.oai_identifier_template, d) >>,
             response |-> Some(resp),
             outcome |-> GetRecordOutcome(resp)]
    /\ UNCHANGED <<client, harvestVars, identVars, xVars, facadeVars>>

NextRecord == GetRecord

SpecRecord == InitRecord /\ [][NextRecord]_vars

(***************************************************************************)
(* Accesses to the properties of an AlephClient.                           *)
(***************************************************************************)
InitFacade ==
    /\ \E version \in UnidataVersions :
        client = AlephOAIClientInit(HarvestConfig, version)
    /\ from_date = Nothing
    /\ to_date = Nothing
    /\ HarvestIdle
    /\ IdentIdle
    /\ XIdle
    /\ RecordIdle
    /\ \E config \in AlephConfigs :
        /\ aleph_config = Some(config)
        /\ aleph_client = AlephClientInit(config)
    /\ accesses = <<>>

\* what is left alone by an access to a property
accessFrame == <<client, harvestVars, identVars, xVars, recordVars,
                 aleph_config, aleph_client>>

\* an access to a property and what it gave
Accessed(name, outcome) == [property |-> name, outcome |-> outcome]

\* aleph_client.OAI, lines 44-48
OAI ==
    /\ Len(accesses) < MaxAccesses
    /\ accesses' = Append(accesses,
            Accessed("OAI", PropertyGet(aleph_client, "oai", "OAI")))
    /\ UNCHANGED accessFrame

\* aleph_client.X, lines 50-54
X ==
    /\ Len(accesses) < MaxAccesses
    /\ accesses' = Append(accesses,
            Accessed("X", PropertyGet(aleph_client, "x", "X")))
    /\ UNCHANGED accessFrame

\* aleph_client.Z3950, lines 56-60
Z3950 ==
    /\ Len(accesses) < MaxAccesses
    /\ accesses' = Append(accesses,
            Accessed("Z3950", PropertyGet(aleph_client, "z3950", "Z3950")))
    /\ UNCHANGED accessFrame

NextFacade == OAI \/ X \/ Z3950

SpecFacade == InitFacade /\ [][NextFacade]_vars

(***************************************************************************)
(* What the properties below speak of, stated from the responses and the   *)
(* results alone.                                                          *)
(***************************************************************************)
\* the identifiers of the served fragments that the pattern compiled from
\* the harvest's configuration finds a match in, by the Unicode database of
\* the interpreter that compiled it
AcceptedIdentifiers ==
    [v \in UnidataVersions |->
        {id \in {f.text : f \in Fragments} :
            Search(AlephOAIClientInit(HarvestConfig, v)
                       .parse_identifier_pattern, id) # Nothing}]

\* the fragment has a header and an identifier the client's pattern accepts
Matches(f) ==
    /\ f.header
    /\ f.ident = "text"
    /\ f.text \in AcceptedIdentifiers[client.unidata_version]

\* the parse of the body succeeds: the body is well-formed, or it is absent
\* and the parser takes None
Parses(f) == f.marc \in {"ok", "none_ok"}

\* the fragment is not marked deleted and the parse of its body fails
ParseFails(f) == f.status # "deleted" /\ ~Parses(f)

\* the status the specification gives a fragment that Matches
ExpectedStatus(f) ==
    IF f.status = "deleted" THEN "Deleted"
    ELSE IF Parses(f) THEN "Active" ELSE "Failed"

\* the document number the server put in an identifier
DocOf(text) == IF text = IdB THEN DocB ELSE DocA

\* fragments of the pages before the page being processed
PageOffset == Len(ServedFragments) - Len(content.records)

\* how many fragments the loop has left behind: those of earlier pages, and
\* those of the current page up to the yield the generator is suspended at
\* (or was closed at), or before the record it is working on
NumProcessed ==
    LET here == IF gen \in {"suspended", "closed"} THEN rec_i ELSE rec_i - 1
        n == Len(content.records)
    IN PageOffset + (IF here < 0 THEN 0 ELSE IF here > n THEN n ELSE here)

\* index of the response that holds the k-th served fragment
RECURSIVE ResponseOf(_, _)
ResponseOf(k, j) ==
    IF k <= Len(responses[j].records) THEN j
    ELSE ResponseOf(k - Len(responses[j].records), j + 1)

\* C1: a fragment that is not deleted and whose body fails to parse gives a
\* Failed result without a record, the generator does not raise at it, and
\* a harvest that returns has yielded a result for every served fragment,
\* those after the failure included.
C1_ParseFailureIsData ==
    \A k \in DOMAIN ServedFragments :
        LET f == ServedFragments[k]
        IN (Matches(f) /\ ParseFails(f)) =>
            /\ k <= Len(out) =>
                (out[k].status = "Failed" /\ out[k].record = Nothing)
            /\ ~(gen = "raised" /\ Len(out) = k - 1)
            /\ NumProcessed >= k => Len(out) >= k
            /\ gen = "returned" => Len(out) = Len(ServedFragments)

\* a Failed result followed by a result from the next set
C1_Witness ==
    /\ Len(out) = 2
    /\ out[1].status = "Failed"
    /\ Len(requests) = 2
    /\ requests[2].set_i = 2
    /\ out[2].status = "Active"

\* C2: the results are, one for one and in order, those of the fragments
\* the loop has left behind; each fragment has a header and a matching
\* identifier and its result is Deleted when the header says deleted
\* (whatever the body), else Active when the body parses, else Failed.
C2_OneResultPerFragment ==
    /\ Len(out) = NumProcessed
    /\ \A k \in DOMAIN out :
        /\ Matches(ServedFragments[k])
        /\ out[k].status = ExpectedStatus(ServedFragments[k])
        /\ out[k].status \in {"Active", "Deleted", "Failed"}

\* a deleted fragment with a body gave Deleted, a fragment without a body
\* gave Failed
C2_Witness ==
    /\ Len(out) = 2
    /\ out[1].status = "Deleted"
    /\ ServedFragments[1].marc = "bad"
    /\ out[2].status = "Failed"
    /\ ServedFragments[2].marc = "none"

\* C3: a yielded result has a record if and only if its status is Active.
C3_RecordIffActive ==
    \A k \in DOMAIN out : (out[k].record # Nothing) <=> (out[k].status = "Active")

\* results of two pages: a Failed one without a record, an Active one with
C3_Witness ==
    /\ Len(out) = 2
    /\ Len(responses) = 2
    /\ out[1].status = "Failed"
    /\ out[1].record = Nothing
    /\ out[2].status = "Active"
    /\ out[2].record # Nothing
    /\ requests[2].set_i = 1

\* the fragments of the pages served for the sets before set i, and for set i
FragsBefore(i) ==
    Flatten([j \in DOMAIN responses |->
                IF requests[j].set_i < i THEN responses[j].records ELSE <<>>])

FragsOf(i) ==
    Flatten([j \in DOMAIN responses |->
                IF requests[j].set_i = i THEN responses[j].records ELSE <<>>])

\* the pagination loop of set i has ended by one of its break statements
SetDone(i) == set_i > i \/ (set_i = i /\ pc = "for_set")

\* a page that ends a set's pagination: no records, or no token text
FinalPage(resp) ==
    /\ resp.kind = "document"
    /\ (resp.records = <<>> \/ resp.token = Nothing \/ resp.token = Some(<<>>))

LastResponseOfSet(i) ==
    CHOOSE j \in DOMAIN responses :
        /\ requests[j].set_i = i
        /\ \A j2 \in DOMAIN responses : requests[j2].set_i = i => j2 <= j

\* C4: when the loop of a set is done, the results hold, after those of
\* the earlier sets, one result for each record of the set's pages, in page
\* order and in document order within a page, nothing more has been yielded
\* when the loop ends, and the loop ended at a page without records or
\* without token text, not before.
C4_AllPagesYielded ==
    \A i \in 1..Len(client.oai_sets) :
        SetDone(i) =>
            LET frs == FragsOf(i)
                off == Len(FragsBefore(i))
            IN /\ Len(out) >= off + Len(frs)
               /\ \A k \in DOMAIN frs :
                    /\ out[off + k].system_number = DocOf(frs[k].text)
                    /\ out[off + k].status = ExpectedStatus(frs[k])
               /\ (set_i = i /\ pc = "for_set") => Len(out) = off + Len(frs)
               /\ FinalPage(responses[LastResponseOfSet(i)])

\* set 1 is done after two pages of one record each, a token between them
C4_Witness ==
    /\ SetDone(1)
    /\ Len(responses) = 2
    /\ requests[2].set_i = 1
    /\ responses[1].token # Nothing
    /\ Len(responses[1].records) = 1
    /\ Len(responses[2].records) = 1
    /\ responses[1].records[1] = Frag(TRUE, "text", IdA, "", "bad")
    /\ responses[2].records[1] = Frag(TRUE, "text", IdA, "", "ok")
    /\ Len(out) = 2

\* no request of a set follows a response of that set that had no
\* resumption token or an empty one
NoRequestAfterFinalToken ==
    \A j \in DOMAIN responses :
        (responses[j].kind = "document" /\
         (responses[j].token = Nothing \/ responses[j].token = Some(<<>>))) =>
            \A j2 \in DOMAIN requests :
                j2 > j => requests[j2].set_i # requests[j].set_i

\* C5: with a consumer that keeps asking, the loop of every set that has
\* begun reaches Done (unless the harvest raises or the consumer closes
\* it); there is one request per response, and no request of a set after
\* the response that carried no token or an empty one.
C5_PaginationTerminates ==
    /\ [](Len(requests) = Len(responses) /\ NoRequestAfterFinalToken)
    /\ \A i \in 1..Len(HarvestConfig.oai_sets) :
          (set_i = i /\ pc = "get") ~>
              (SetDone(i) \/ gen \in {"raised", "closed"})

\* the harvest returned; set 1 took a page with a token and a page with an
\* empty token, set 2 a page without records
C5_Witness ==
    /\ SetDone(1)
    /\ Len(responses) = 3
    /\ requests[2].set_i = 1
    /\ responses[1].token = Some(TokenText(1))
    /\ responses[2].token = Some(<<>>)
    /\ responses[2].records # <<>>
    /\ gen = "returned"

\* the requests up to the j-th that name a set (the first request of a set)
FirstRequests(j) == {j2 \in 1..j : requests[j2].params.set # Nothing}

\* C6: the sets are harvested one after the other in their declared order:
\* the n-th request that names a set names the n-th configured set, it is
\* issued only after the page before it ended the earlier set's loop and
\* every record served till then has been yielded, and a harvest that
\* returns has asked for every set.
C6_SetsInDeclaredOrder ==
    /\ \A j \in DOMAIN requests :
        requests[j].params.set # Nothing =>
            /\ Cardinality(FirstRequests(j)) <= Len(HarvestConfig.oai_sets)
            /\ requests[j].params.set[1] =
                   HarvestConfig.oai_sets[Cardinality(FirstRequests(j))]
            /\ j > 1 =>
                /\ FinalPage(responses[j - 1])
                /\ Len(out) >= Len(Flatten([j2 \in 1..(j - 1) |->
                                               responses[j2].records]))
    /\ gen = "returned" =>
        Cardinality(FirstRequests(Len(requests))) = Len(HarvestConfig.oai_sets)

\* one result from S1, then the request for S2 and one result from it
C6_Witness ==
    /\ Len(requests) = 2
    /\ requests[1].params.set = Some("S1")
    /\ requests[2].params.set = Some("S2")
    /\ Len(responses[1].records) = 1
    /\ Len(responses[2].records) = 1
    /\ Len(out) = 2
    /\ out[1].status = "Deleted"

FragmentErrors ==
    {"Record without header found.", "AttributeError",
     "Record without identifier found.",
     "Record with invalid identifier found"}

\* no result, no later fragment and no further request after a fragment
\* that lacks a header or a matching identifier
StopsAtInvalidFragment ==
    \A k \in DOMAIN ServedFragments :
        ~Matches(ServedFragments[k]) =>
            /\ Len(out) < k
            /\ NumProcessed < k
            /\ ResponseOf(k, 1) = Len(responses)
            /\ gen # "returned"
            /\ (gen = "raised" /\ Len(out) = k - 1) => error \in FragmentErrors

\* the loop body run on such a fragment raises
RaisesAtInvalidFragment ==
    (/\ gen = "running"
     /\ pc = "for_record"
     /\ rec_i <= Len(content.records)
     /\ ~Matches(content.records[rec_i]))
        => (/\ gen' = "raised"
            /\ error' \in FragmentErrors
            /\ out' = out
            /\ requests' = requests)

\* C7: a fragment without header, without identifier or with an identifier
\* the pattern does not match (deleted or not) makes the harvest raise at
\* that fragment: no result for it, nothing later processed, no further
\* request.
C7_InvalidFragmentIsFatal ==
    /\ []StopsAtInvalidFragment
    /\ [][RaisesAtInvalidFragment]_vars

\* a deleted fragment of another base raised, the fragment after it was left
C7_Witness ==
    /\ gen = "raised"
    /\ error = "Record with invalid identifier found"
    /\ Len(ServedFragments) = 2
    /\ ServedFragments[1].status = "deleted"
    /\ ServedFragments[1].text = IdForeign
    /\ Matches(ServedFragments[2])
    /\ out = <<>>

\* C8: a ListRecords response that is an OAI error document makes the
\* harvest raise.
C8_ErrorDocumentRaises ==
    \A j \in DOMAIN responses : responses[j].oai_error => gen = "raised"

\* when the generator has raised: everything served before the failed
\* request, or before the offending fragment of the last page, has been
\* yielded with its proper result, and the consumer got the error
YieldedBeforeError ==
    gen = "raised" =>
        /\ last \in {"error", "StopIteration"}
        /\ \A k \in DOMAIN out :
            /\ Matches(ServedFragments[k])
            /\ out[k].status = ExpectedStatus(ServedFragments[k])
        /\ IF error \in FailureKinds
           THEN Len(out) = Len(ServedFragments)
           ELSE /\ error \in FragmentErrors
                /\ Len(out) < Len(ServedFragments)
                /\ ~Matches(ServedFragments[Len(out) + 1])
                /\ ResponseOf(Len(out) + 1, 1) = Len(responses)

\* the error is the outcome of the pending next() call, and a generator
\* that has raised yields and requests nothing more
ErrorEndsSequence ==
    /\ (gen # "raised" /\ gen' = "raised") =>
            (last = "pending" /\ last' = "error")
    /\ gen = "raised" =>
            (gen' = "raised" /\ out' = out /\ requests' = requests
             /\ last' \in {"error", "StopIteration"})

\* C9: at a fatal error the results of all earlier fragments, pages and
\* sets have been yielded; the error reaches the consumer at the element
\* request where it occurs and nothing is yielded afterwards.
C9_PartialResultsBeforeError ==
    /\ []YieldedBeforeError
    /\ [][ErrorEndsSequence]_vars

\* one result yielded, then the second fragment of the page had no header
C9_Witness ==
    /\ gen = "raised"
    /\ error = "Record without header found."
    /\ Len(responses) = 1
    /\ Len(out) = 1
    /\ out[1].status = "Active"
    /\ last = "StopIteration"

\* the configured system-number pattern, compiled by the client's interpreter
SystemNumberPattern ==
    Compile(client.config.system_number_pattern, client.unidata_version)

\* C10: the identifier get_record builds from a document number that the
\* system-number pattern matches in full is parsed back by the compiled
\* pattern to the configured base and that document number.
C10_IdentifierRoundTrip ==
    (match_ # Nothing /\
     FullMatch(SystemNumberPattern, doc_number[1])) =>
        match_[1] = Some([base |-> client.config.base,
                          system_number |-> doc_number[1]])

\* the parts of the served identifiers that the system-number pattern of a
\* configuration, compiled with a Unicode database, matches in full, each
\* computed once
MatchedInFull ==
    [config \in {HarvestConfig}, v \in UnidataVersions |->
        {d \in UNION {{SubSeq(f.text, i, j) : i \in 1..Len(f.text),
                                              j \in 1..Len(f.text)} :
                          f \in Fragments} :
            FullMatch(Compile(config.system_number_pattern, v), d)}]

\* C11: every result yielded by list_records, whatever its status, set or
\* page, has the base configured for the client and a system_number that
\* the configured system-number pattern matches.
C11_ResultOfConfiguredBase ==
    \A k \in DOMAIN out :
        /\ out[k].base = client.config.base
        /\ out[k].system_number
               \in MatchedInFull[client.config, client.unidata_version]

\* an Active result from an identifier with text around the template, then
\* a Deleted one
C11_Witness ==
    /\ Len(out) = 2
    /\ ServedFragments[1].text = IdWrapped
    /\ out[1].status = "Active"
    /\ out[2].status = "Deleted"

(***************************************************************************)
(* The X-Server searches, seen from the requests, the responses and what   *)
(* each caller got.                                                        *)
(***************************************************************************)
\* the requests caller c issued, in order
RequestsOf(c) == SelectSeq(x_requests, LAMBDA r : r.caller = c)

\* the 1-based inclusive windows of size page_size over [1, total_count],
\* the last one clipped
Windows(total_count, page_size) ==
    [k \in 1..((total_count + page_size - 1) \div page_size) |->
        <<(k - 1) * page_size + 1,
          IF k * page_size <= total_count THEN k * page_size
          ELSE total_count>>]

\* the fetch requests of caller c that ask for result i
Covering(c, i) ==
    {k \in DOMAIN RequestsOf(c) :
        /\ RequestsOf(c)[k].op = "present"
        /\ RequestsOf(c)[k].set_entry[1] <= i
        /\ i <= RequestsOf(c)[k].set_entry[2]}

\* C12: find_system_numbers issues one search and then the fetches of the
\* windows (k*page_size + 1, min((k+1)*page_size, total_count)), k = 0, 1,
\* ..., in that order; once the sequence is exhausted they cover
\* [1, total_count] exactly once, none ends past total_count, and there is
\* no fetch for total_count = 0.
C12_WindowsCoverResultRange ==
    \A c \in Callers :
        search[c].kind = "find" =>
            LET rs == RequestsOf(c)
                ws == Windows(search[c].no_records, x_client.page_size)
            IN /\ rs # <<>> => rs[1].op = "find"
               /\ Len(rs) <= 1 + Len(ws)
               /\ \A k \in 2..Len(rs) :
                     /\ rs[k].op = "present"
                     /\ rs[k].set_entry = ws[k - 1]
                     /\ rs[k].set_entry[2] <= search[c].no_records
               /\ search[c].st = "returned" =>
                     /\ Len(rs) = 1 + Len(ws)
                     /\ \A i \in 1..search[c].no_records :
                           Cardinality(Covering(c, i)) = 1
                     /\ search[c].no_records = 0 => Len(rs) = 1

\* a search of 3 results fetched in pages of 2: windows (1,2) and (3,3)
C12_Witness ==
    /\ search[1].kind = "find"
    /\ search[1].st = "returned"
    /\ search[1].no_records = 3
    /\ x_client.page_size = 2
    /\ Len(x_requests) = 3
    /\ x_requests[2].set_entry = <<1, 2>>
    /\ x_requests[3].set_entry = <<3, 3>>

\* the responses to the requests of caller c, in order
ResponsesOf(c) ==
    LET idx == SelectSeq([k \in DOMAIN x_responses |-> k],
                         LAMBDA k : x_requests[k].caller = c)
    IN [j \in DOMAIN idx |-> x_responses[idx[j]]]

\* C13 as stated: get_one_or_none_system_number returns a value if and
\* only if the search reports total_count = 1, and issues no fetch when
\* total_count is 0 or more than 1.
C13_ValueIffExactlyOne ==
    \A c \in Callers :
        (search[c].kind = "one" /\ search[c].st = "returned") =>
            /\ (search[c].result # Nothing) <=> (search[c].no_records = 1)
            /\ search[c].no_records # 1 => Len(RequestsOf(c)) = 1

\* C13 amended: for total_count 0 or more than 1 it returns None and
\* issues no fetch; for total_count = 1 it issues one fetch of the window
\* (1, 1) and returns the first value of that response, which is None when
\* the response holds no value or a value without text.
C13_FirstValueOfSingleResult ==
    \A c \in Callers :
        (search[c].kind = "one" /\ search[c].st = "returned") =>
            LET rs == RequestsOf(c)
                rp == ResponsesOf(c)
            IN IF search[c].no_records # 1
               THEN /\ search[c].result = Nothing
                    /\ Len(rs) = 1
               ELSE /\ Len(rs) = 2
                    /\ rs[2].op = "present"
                    /\ rs[2].set_entry = <<1, 1>>
                    /\ search[c].result =
                           IF rp[2].doc_numbers = <<>> THEN Nothing
                           ELSE rp[2].doc_numbers[1]
                    /\ search[c].result # Nothing => rp[1].no_records = Some(1)

\* a search of one result whose fetch response holds no value: None
C13_Witness ==
    /\ search[1].kind = "one"
    /\ search[1].st = "returned"
    /\ search[1].no_records = 1
    /\ Len(x_responses) = 2
    /\ x_responses[2].doc_numbers = <<>>
    /\ search[1].result = Nothing

\* the search response of caller c holds no session identifier, or an
\* empty one
SearchWithoutSession(c) ==
    /\ ResponsesOf(c) # <<>>
    /\ ResponsesOf(c)[1].kind = "document"
    /\ ResponsesOf(c)[1].session_id \in {Nothing, Some(<<>>)}

\* a search without session identifier has failed with a RuntimeError that
\* carries the <h1> text, or the generic message, and has issued no fetch
FailsWithoutSession ==
    \A c \in Callers :
        SearchWithoutSession(c) =>
            /\ search[c].st = "raised"
            /\ search[c].error.type = "RuntimeError"
            /\ search[c].error.message =
                   IF ResponsesOf(c)[1].h1 \in {Nothing, Some("")}
                   THEN "Unexpected response"
                   ELSE ResponsesOf(c)[1].h1[1]
            /\ Len(RequestsOf(c)) = 1

\* the step in which a search fails leaves the sticky session id alone
FailureKeepsSticky ==
    \A c \in Callers :
        (search[c].pc = "search" /\ search'[c].st = "raised") =>
            sticky' = sticky

\* C14: a search response without a session identifier, or with an empty
\* one, makes the search fail with a RuntimeError whose message is the
\* text of <h1> when present and non-empty, else "Unexpected response"; no
\* fetch is issued and the sticky session id is unchanged.
C14_SearchWithoutSessionFails ==
    []FailsWithoutSession /\ [][FailureKeepsSticky]_vars

\* a search answered by an error page, on a client that holds the session
\* identifier of an earlier search
C14_Witness ==
    /\ SearchWithoutSession(1)
    /\ x_responses[1].h1 = Some(ForbiddenText)
    /\ search[1].error.message = ForbiddenText
    /\ sticky = Some(EarlierSession)

\* the k-th response was taken in: a search response with a session
\* identifier, or a fetch response that is a document
TakenIn(k) ==
    /\ x_responses[k].kind = "document"
    /\ \/ x_requests[k].op = "present"
       \/ x_responses[k].session_id \notin {Nothing, Some(<<>>)}

\* the sticky session id after the k-th response, given the one the k-th
\* request carried
StickyAfter(k) ==
    IF TakenIn(k) THEN x_responses[k].session_id
    ELSE x_requests[k].session_id

\* C15: after a successful search the sticky session id is the one of the
\* search response, after every fetch response it is the session
\* identifier of that response (none when the response has none), and
\* every request carries the sticky value current when it is issued.
C15_SessionContinuity ==
    /\ \A k \in DOMAIN x_requests :
          k > 1 => x_requests[k].session_id = StickyAfter(k - 1)
    /\ x_responses # <<>> => sticky = StickyAfter(Len(x_responses))

\* the first fetch response rotates the session identifier and the second
\* fetch request carries the new one
C15_Witness ==
    /\ Len(x_requests) = 3
    /\ x_requests[1].session_id = Some(EarlierSession)
    /\ x_responses[1].session_id = Some(SessionText(1))
    /\ x_requests[2].session_id = Some(SessionText(1))
    /\ x_responses[2].session_id = Some(SessionText(2))
    /\ x_requests[3].session_id = Some(SessionText(2))
    /\ x_responses[3].session_id = Nothing
    /\ sticky = Nothing

\* the requests made before the k-th one for the same search
EarlierOf(k) ==
    {j \in 1..(k - 1) : x_requests[j].caller = x_requests[k].caller}

\* the latest of a non-empty set of request numbers
Latest(S) == CHOOSE j \in S : \A i \in S : i <= j

\* C16: when searches on one client are interleaved, every fetch request
\* of a search carries the session identifier of the latest response to
\* that same search, never the one issued to another search.
C16_SessionNotShared ==
    \A k \in DOMAIN x_requests :
        x_requests[k].op = "present" =>
            x_requests[k].session_id =
                x_responses[Latest(EarlierOf(k))].session_id

\* a get_record call has ended
RecordCallDone == record_call.outcome.st # "idle"

\* the response of the latest get_record call
RecordResponse == record_call.response[1]

\* an error status, or a document with an OAI error element
ErrorAnswer(resp) ==
    \/ resp.kind = "HTTPError"
    \/ resp.kind = "document" /\ resp.error # Nothing

\* a parsed document without an error element
NoErrorAnswer(resp) == resp.kind = "document" /\ resp.error = Nothing

\* C17: get_record issues exactly one GetRecord request, and it raises,
\* returning neither a record nor None, whenever the HTTP status is an
\* error or the response document contains an OAI error element.
C17_ErrorAnswerRaises ==
    RecordCallDone =>
        /\ Len(record_call.requests) = 1
        /\ record_call.requests[1].verb = "GetRecord"
        /\ ErrorAnswer(RecordResponse) =>
               /\ record_call.outcome.st = "raised"
               /\ record_call.outcome.error # NoError

\* an error document that also holds a record body: the call raises with
\* the text of the error element
C17_Witness ==
    /\ RecordCallDone
    /\ RecordResponse.kind = "document"
    /\ RecordResponse.error = Some("idDoesNotExist")
    /\ RecordResponse.marc = "ok"
    /\ record_call.outcome = Raised(Exception("Exception", "idDoesNotExist"))

\* get_record returned None
ReturnedNone ==
    record_call.outcome.st = "returned" /\ record_call.outcome.value = Nothing

\* get_record returns None exactly for a parsed document with neither an
\* error element nor a record body
NoneIffNoBody ==
    RecordCallDone =>
        (ReturnedNone <=>
            NoErrorAnswer(RecordResponse) /\ RecordResponse.marc = "none")

\* C18 as stated: get_record returns None exactly when the request
\* succeeds and the response has neither an error element nor a record
\* body, and it returns the parsed record whenever a body is present and
\* there is no error element.
C18_NoneIffNoBodyElseRecord ==
    /\ NoneIffNoBody
    /\ RecordCallDone /\ NoErrorAnswer(RecordResponse)
          /\ RecordResponse.marc # "none" =>
             /\ record_call.outcome.st = "returned"
             /\ record_call.outcome.value # Nothing

\* C18, amended: get_record returns None exactly when the request
\* succeeds and the response has neither an error element nor a record
\* body; with a body and no error element it returns the parsed record
\* when the body parses and raises the parser's error when it does not.
C18_NoneIffNoBodyElseParse ==
    /\ NoneIffNoBody
    /\ RecordCallDone /\ NoErrorAnswer(RecordResponse)
          /\ RecordResponse.marc # "none" =>
             IF RecordResponse.marc = "ok"
             THEN record_call.outcome = Returned(Some("MarcRecord"))
             ELSE record_call.outcome.st = "raised"

\* a response without error element and without body: None is returned
C18_Witness ==
    /\ RecordCallDone
    /\ NoErrorAnswer(RecordResponse)
    /\ RecordResponse.marc = "none"
    /\ ReturnedNone
    /\ Len(record_call.requests) = 1

\* the service a property of AlephClient stands for
ServiceOf(name) ==
    CASE name = "OAI" -> "oai"
      [] name = "X" -> "x"
      [] name = "Z3950" -> "z3950"

\* C19: accessing the OAI, X or Z3950 property of an AlephClient returns
\* the client of that service when the service is configured and raises
\* ValueError when it is not.
C19_UnconfiguredRaisesValueError ==
    \A k \in DOMAIN accesses :
        LET service == ServiceOf(accesses[k].property)
            outcome == accesses[k].outcome
        IN IF service \in aleph_config[1].configured
           THEN outcome = Returned(Some(ClientClass(service)))
           ELSE /\ outcome.st = "raised"
                /\ outcome.error.type = "ValueError"

\* the system-number values of the responses to caller c, in response order
ValuesServedTo(c) ==
    Flatten([k \in DOMAIN ResponsesOf(c) |-> ResponsesOf(c)[k].doc_numbers])

IsPrefix(s, t) == Len(s) <= Len(t) /\ s = SubSeq(t, 1, Len(s))

\* the fetch requests of caller c, in order
FetchesOf(c) == SelectSeq(RequestsOf(c), LAMBDA r : r.op = "present")

\* C20: what find_system_numbers has yielded is, at every moment, the
\* start of the concatenation of the values of its fetch responses in
\* response order, and all of it when the sequence has ended or the next
\* fetch is due; the fetches go by increasing window.  Nothing is
\* reordered, deduplicated, dropped or added.
C20_YieldsValuesInResponseOrder ==
    \A c \in Callers :
        search[c].kind = "find" =>
            /\ IsPrefix(search[c].out, ValuesServedTo(c))
            /\ search[c].st \in {"returned", "raised"}
                  \/ search[c].pc = "page" =>
                     search[c].out = ValuesServedTo(c)
            /\ \A k \in 2..Len(FetchesOf(c)) :
                  FetchesOf(c)[k - 1].set_entry[2]
                      < FetchesOf(c)[k].set_entry[1]

\* a window of one record answered with two values, the same one twice,
\* and an empty answer for the second window: both values are yielded
C20_Witness ==
    /\ search[1].kind = "find"
    /\ search[1].st = "returned"
    /\ x_client.page_size = 1
    /\ search[1].no_records = 2
    /\ Len(x_responses) = 3
    /\ x_responses[2].doc_numbers =
           <<Some("MZK01-000000002"), Some("MZK01-000000002")>>
    /\ x_responses[3].doc_numbers = <<>>
    /\ search[1].out = x_responses[2].doc_numbers

\* the k-th response is a page without record fragments
EmptyPage(k) ==
    responses[k].kind = "document" /\ responses[k].records = <<>>

\* C21: a response page with zero record fragments ends its set's
\* pagination without an error, whether or not it carries a resumption
\* token: no later request is for that set, and list_records goes on to
\* the next configured set (or returns after the last).
C21_EmptyPageEndsSet ==
    \A k \in DOMAIN responses :
        EmptyPage(k) =>
            /\ \A j \in DOMAIN requests :
                  j > k => requests[j].set_i > requests[k].set_i
            /\ k < Len(requests) =>
                  /\ requests[k + 1].set_i = requests[k].set_i + 1
                  /\ requests[k + 1].params.resumptionToken = Nothing
            /\ k = Len(requests) =>
                  \/ /\ gen = "running"
                     /\ \/ pc = "for_set" /\ set_i = requests[k].set_i
                        \/ pc = "get" /\ set_i = requests[k].set_i + 1
                  \/ /\ gen = "returned"
                     /\ error = "none"
                     /\ requests[k].set_i = Len(client.oai_sets)

\* an empty first page that carries a resumption token, and the next
\* request is the first one of the second set
C21_Witness ==
    /\ Len(requests) = 2
    /\ EmptyPage(1)
    /\ responses[1].token = Some(TokenText(1))
    /\ ~responses[1].oai_error
    /\ requests[2].set_i = 2
    /\ requests[2].params.resumptionToken = Nothing

\* the k-th request is the first one for its set
FirstOfSet(k) == k = 1 \/ requests[k - 1].set_i # requests[k].set_i

\* C22: the first request for a set carries the set name and the
\* from/until window and no resumption token; every later request for the
\* set carries the ListRecords verb and the resumption token of the
\* response just before it, as it came, and none of set, from, until and
\* metadataPrefix.
C22_RequestParameters ==
    \A k \in DOMAIN requests :
        LET p == requests[k].params
        IN /\ p.verb = "ListRecords"
           /\ IF FirstOfSet(k)
              THEN /\ p.set = Some(client.oai_sets[requests[k].set_i])
                   /\ p.from = from_date
                   /\ p.until = to_date
                   /\ p.resumptionToken = Nothing
              ELSE /\ p.resumptionToken = responses[k - 1].token
                   /\ p.resumptionToken \notin {Nothing, Some(<<>>)}
                   /\ p.set = Nothing
                   /\ p.from = Nothing
                   /\ p.until = Nothing
                   /\ p.metadataPrefix = Nothing

\* a second page asked for with the token of the first, then the first
\* request of the second set
C22_Witness ==
    /\ Len(requests) = 3
    /\ requests[1].params.set = Some("S1")
    /\ requests[1].params.from = FromDate
    /\ responses[1].token = Some(TokenText(1))
    /\ requests[2].set_i = 1
    /\ requests[2].params.resumptionToken = Some(TokenText(1))
    /\ requests[2].params.set = Nothing
    /\ requests[3].params.set = Some("S2")
    /\ requests[3].params.resumptionToken = Nothing

\* the record fragments of the first k responses
FragsThrough(k) ==
    Flatten([j \in 1..k |-> responses[j].records])

\* the pages whose records have all been handed to the consumer
PagesConsumed ==
    {k \in DOMAIN responses :
        /\ responses[k].kind = "document"
        /\ Len(out) >= Len(FragsThrough(k))}

\* nothing is requested before the first next(); a page is requested only
\* when every record of the pages before it has been yielded
RequestsFollowConsumption ==
    /\ gen = "created" => requests = <<>>
    /\ \A k \in DOMAIN requests :
          k > 1 => Len(out) >= Len(FragsThrough(k - 1))
    /\ Len(requests) <= 1 + Cardinality(PagesConsumed)

\* a request is issued inside a next() call of the consumer that has not
\* been answered yet, every result is handed over at a suspension of its
\* own, and a generator that is not inside a next() call requests nothing
SuspendsAtEveryRecord ==
    /\ requests' # requests =>
          /\ gen = "running"
          /\ last = "pending"
          /\ Len(requests') = Len(requests) + 1
          /\ Len(out) = Len(ServedFragments)
    /\ out' # out =>
          /\ Len(out') = Len(out) + 1
          /\ gen = "running"
          /\ gen' = "suspended"
          /\ last' = "item"
    /\ gen # "running" => requests' = requests /\ out' = out

\* C23: the harvest is lazy and suspends after every record: no request
\* before the first element is asked for, the request for the next page or
\* set only after the consumer has asked for the element after the last
\* record of the page before, at most one more page request than pages
\* fully consumed, and no request once the consumer stops.
C23_LazyHarvest ==
    /\ []RequestsFollowConsumption
    /\ [][SuspendsAtEveryRecord]_vars

\* the consumer gave up after the first of two records of a page that
\* carries a resumption token: one request in all
C23_Witness ==
    /\ gen = "closed"
    /\ Len(requests) = 1
    /\ Len(responses[1].records) = 2
    /\ responses[1].token = Some(TokenText(1))
    /\ Len(out) = 1
    /\ last = "StopIteration"

\* the values of the first k responses to caller c
ValuesThrough(c, k) ==
    Flatten([j \in 1..k |-> ResponsesOf(c)[j].doc_numbers])

\* a generator that was not started has requested nothing; there is one
\* search call at most, it comes first, and a fetch is issued only when
\* every value of the responses before it has been yielded
FetchesFollowConsumption ==
    \A c \in Callers :
        search[c].kind = "find" =>
            /\ search[c].st = "created" => RequestsOf(c) = <<>>
            /\ \A k \in DOMAIN RequestsOf(c) :
                  RequestsOf(c)[k].op = "find" <=> k = 1
            /\ \A k \in DOMAIN RequestsOf(c) :
                  k > 1 => Len(search[c].out) >= Len(ValuesThrough(c, k - 1))

\* a request is issued for a generator that is inside a next() call, each
\* value is handed over at a suspension of its own, and a generator that
\* is not inside a next() call requests and yields nothing
SuspendsAtEveryValue ==
    \A c \in Callers :
        search[c].kind = "find" /\ search'[c].kind = "find" =>
            /\ RequestsOf(c)' # RequestsOf(c) =>
                  /\ search[c].st = "running"
                  /\ Len(RequestsOf(c)') = Len(RequestsOf(c)) + 1
                  /\ search[c].out = ValuesServedTo(c)
            /\ search'[c].out # search[c].out =>
                  /\ Len(search'[c].out) = Len(search[c].out) + 1
                  /\ search[c].st = "running"
                  /\ search'[c].st = "suspended"
            /\ search[c].st # "running" =>
                  /\ RequestsOf(c)' = RequestsOf(c)
                  /\ search'[c].out = search[c].out

\* C24: find_system_numbers is lazy: the search call is issued when the
\* first element is asked for, the fetch for the next window only after
\* every value of the window before has been yielded, and a consumer that
\* stops after n values has caused one search call at most and the fetch
\* calls needed for those n values.
C24_LazySearch ==
    /\ []FetchesFollowConsumption
    /\ [][SuspendsAtEveryValue]_vars

\* the consumer holds the first of two values of the first window of a
\* result set of three: one search call and one fetch call so far
C24_Witness ==
    /\ search[1].kind = "find"
    /\ search[1].st = "suspended"
    /\ search[1].no_records = 3
    /\ x_client.page_size = 2
    /\ Len(x_requests) = 2
    /\ x_requests[2].set_entry = <<1, 2>>
    /\ Len(x_responses[2].doc_numbers) = 2
    /\ Len(search[1].out) = 1

\* the text is the substituted template of the harvest's configuration and
\* nothing else: "o:", the base, "-" and nine digits of the interpreter's
\* database
MatchesTemplate(text) ==
    LET lead == <<"o", ":">> \o BaseMZK01 \o <<"-">>
    IN /\ Len(text) = Len(lead) + 9
       /\ SubSeq(text, 1, Len(lead)) = lead
       /\ \A k \in (Len(lead) + 1)..Len(text) :
              text[k] \in DigitsOf[client.unidata_version]

\* C25: the identifier matcher gives (base, system_number) for a string
\* that matches the substituted template and no match for any other
\* string: a fragment whose identifier only contains a template match,
\* with characters before or after it, gets no result and the harvest
\* raises at it.
C25_OnlyWholeIdentifiersAccepted ==
    \A k \in DOMAIN ServedFragments :
        LET f == ServedFragments[k]
        IN IF f.header /\ f.ident = "text" /\ MatchesTemplate(f.text)
           THEN k <= Len(out) =>
                   /\ out[k].base = BaseMZK01
                   /\ out[k].system_number =
                          SubSeq(f.text, Len(f.text) - 8, Len(f.text))
           ELSE /\ Len(out) < k
                /\ NumProcessed >= k => gen = "raised"

\* every search of a caller other than c has ended, or was never started
OthersEnded(c) ==
    \A d \in Callers \ {c} :
        search[d].kind = "none" \/ search[d].st \in {"returned", "raised"}

\* the step issues the search request of caller c
IssuesSearchOf(c) ==
    /\ Len(x_requests') = Len(x_requests) + 1
    /\ x_requests'[Len(x_requests')].caller = c
    /\ x_requests'[Len(x_requests')].op = "find"

\* a search request issued when every other search on the client has ended
\* carries no session id
SearchStartsWithoutSession ==
    \A c \in Callers :
        IssuesSearchOf(c) /\ OthersEnded(c) =>
            x_requests'[Len(x_requests')].session_id = Nothing

\* C26: a search session does not survive the call that produced it: the
\* search request of a later find_system_numbers or
\* get_one_or_none_system_number call on the same client carries no
\* session id left over from an earlier search.
C26_SessionEndsWithItsSearch == [][SearchStartsWithoutSession]_vars

\* what the transport reports for a request that did not succeed
TransportFailures == {"ConnectionError", "HTTPError"}

\* every harvest request was answered once, and a failed one is the last
\* request of the harvest, which raised with that failure
HarvestNeverRetries ==
    /\ Len(requests) = Len(responses)
    /\ \A k \in DOMAIN responses :
          responses[k].kind \in TransportFailures =>
              /\ k = Len(requests)
              /\ gen = "raised"
              /\ error = responses[k].kind

\* no search or fetch request is issued twice for one logical search, and
\* a failed one is the last request of its search, which raised with that
\* failure
SearchNeverRetries ==
    /\ Len(x_requests) = Len(x_responses)
    /\ \A j, k \in DOMAIN x_requests :
          (j < k /\ x_requests[j].caller = x_requests[k].caller) =>
              <<x_requests[j].op, x_requests[j].set_entry>>
                  # <<x_requests[k].op, x_requests[k].set_entry>>
    /\ \A k \in DOMAIN x_responses :
          x_responses[k].kind \in TransportFailures =>
              LET c == x_requests[k].caller
              IN /\ \A j \in DOMAIN x_requests :
                       j > k => x_requests[j].caller # c
                 /\ search[c].st = "raised"
                 /\ search[c].error.type = x_responses[k].kind

\* C27: the protocol layer never retries: each page, search or fetch
\* request is issued at most once, and when the transport reports a
\* failure or a non-success status the operation raises to the caller and
\* issues no further request.
C27_NoRetry == HarvestNeverRetries /\ SearchNeverRetries

\* the request for the second page of a harvest failed with an error
\* status after one result: the generator raised and two requests were made
C27_Witness ==
    /\ gen = "raised"
    /\ error = "HTTPError"
    /\ Len(requests) = 2
    /\ requests[2].set_i = 1
    /\ responses[2].kind = "HTTPError"
    /\ Len(out) = 1

\* C28: after a successful search every fetch request of that search
\* carries a non-empty session id, whatever the fetch responses hold, a
\* fetch response without a session identifier included.
C28_FetchAlwaysCarriesSession ==
    \A k \in DOMAIN x_requests :
        x_requests[k].op = "present" =>
            x_requests[k].session_id \notin {Nothing, Some(<<>>)}

\* the search of caller c succeeded and every fetch was answered with a
\* document
AllAnswered(c) ==
    /\ ResponsesOf(c) # <<>>
    /\ \A k \in DOMAIN ResponsesOf(c) : ResponsesOf(c)[k].kind = "document"
    /\ ~NoSessionId(ResponsesOf(c)[1].session_id)

\* C29: for every page_size the configuration accepts, zero and negative
\* values included, and every total_count > 0, find_system_numbers ends
\* without raising and its fetch windows cover [1, total_count].
C29_AnyPageSizeCoversRange ==
    \A c \in Callers :
        (/\ search[c].kind = "find"
         /\ AllAnswered(c)
         /\ search[c].no_records > 0) =>
            /\ search[c].st # "raised"
            /\ search[c].st = "returned" =>
                  \A i \in 1..search[c].no_records : Covering(c, i) # {}

\* C30: every request of a logical search, the search call and each fetch
\* call alike, goes to the configured host and the configured endpoint:
\* no fetch goes to another path than the search of its result set.
C30_OneAddressPerSearch ==
    \A k \in DOMAIN x_requests :
        /\ x_requests[k].url = x_client.host \o <<"/">> \o x_client.endpoint
        /\ \A j \in DOMAIN x_requests :
              x_requests[j].caller = x_requests[k].caller =>
                  x_requests[j].url = x_requests[k].url

=============================================================================
